---- MODULE Spec2Model ----
(***************************************************************************)
(* A model of the newsletter pipeline of gmail-mcp-server:                 *)
(*   src/src/newsletter.py    clean_email_content, extract_main_content,   *)
(*                            fetch_newsletters                            *)
(*   src/src/gmail_client.py  get_email_body, parse_email_content          *)
(*                                                                         *)
(* Python strings are modelled exactly, in run-length form: a string is a  *)
(* sequence of runs [c |-> character, n |-> repetitions] in which adjacent *)
(* runs carry different characters.  The form is a bijection with the      *)
(* strings, so the 50,000 character cap of clean_email_content is kept at  *)
(* its real value.                                                         *)
(***************************************************************************)
EXTENDS Integers, Sequences, FiniteSets, TLC

(***************************************************************************)
(* Bounds of the model.                                                    *)
(***************************************************************************)
\* the longest plain text drawn as an input, in runs
MaxRuns == 3
\* the longest run of one whitespace character drawn in an input
MaxWs == 3

(***************************************************************************)
(* Strings.                                                                *)
(***************************************************************************)
Run(c, n) == [c |-> c, n |-> n]

\* s + t
Cat(s, t) ==
    IF s = <<>> THEN t
    ELSE IF t = <<>> THEN s
    ELSE IF s[Len(s)].c = t[1].c
         THEN SubSeq(s, 1, Len(s) - 1)
                \o <<Run(t[1].c, s[Len(s)].n + t[1].n)>>
                \o Tail(t)
         ELSE s \o t

\* the string whose characters are the elements of the sequence chars:
\* one run from each place where the character changes
StrOf(chars) ==
    LET starts == {i \in 1..Len(chars) : i = 1 \/ chars[i] # chars[i - 1]}
        nth(k) == CHOOSE i \in starts :
                    Cardinality({j \in starts : j <= i}) = k
        endOf(i) == CHOOSE e \in i..Len(chars) :
                      /\ \A j \in i..e : chars[j] = chars[i]
                      /\ e = Len(chars) \/ chars[e + 1] # chars[i]
    IN  [k \in 1..Cardinality(starts) |->
           Run(chars[nth(k)], endOf(nth(k)) - nth(k) + 1)]

\* len(s)
RECURSIVE StrLen(_)
StrLen(s) == IF s = <<>> THEN 0 ELSE s[1].n + StrLen(Tail(s))

\* s[:k]
RECURSIVE Prefix(_, _)
Prefix(s, k) ==
    IF k <= 0 \/ s = <<>> THEN <<>>
    ELSE IF s[1].n <= k
         THEN Cat(<<s[1]>>, Prefix(Tail(s), k - s[1].n))
         ELSE <<Run(s[1].c, k)>>

\* s[k:]
RECURSIVE Suffix(_, _)
Suffix(s, k) ==
    IF k <= 0 \/ s = <<>> THEN s
    ELSE IF s[1].n <= k
         THEN Suffix(Tail(s), k - s[1].n)
         ELSE <<Run(s[1].c, s[1].n - k)>> \o Tail(s)

\* the characters str.strip() removes, among those of the model's alphabet
Whitespace == {" ", "\n", "\t"}

RECURSIVE LStrip(_)
LStrip(s) ==
    IF s # <<>> /\ s[1].c \in Whitespace THEN LStrip(Tail(s)) ELSE s

RECURSIVE RStrip(_)
RStrip(s) ==
    IF s # <<>> /\ s[Len(s)].c \in Whitespace
    THEN RStrip(SubSeq(s, 1, Len(s) - 1))
    ELSE s

\* s.strip()
strip(s) == RStrip(LStrip(s))

\* k empty strings
Empties(k) == [i \in 1..k |-> <<>>]

\* s.split('\n'), with cur the line being read and acc the lines read:
\* a run of n newlines ends the current line and then n - 1 empty ones
RECURSIVE SplitAcc(_, _, _)
SplitAcc(s, cur, acc) ==
    IF s = <<>> THEN Append(acc, cur)
    ELSE IF s[1].c = "\n"
         THEN SplitAcc(Tail(s), <<>>, Append(acc, cur) \o Empties(s[1].n - 1))
         ELSE SplitAcc(Tail(s), Append(cur, s[1]), acc)

split(s) == SplitAcc(s, <<>>, <<>>)

\* '\n'.join(lines)
RECURSIVE join(_)
join(lines) ==
    IF lines = <<>> THEN <<>>
    ELSE IF Len(lines) = 1 THEN lines[1]
    ELSE Cat(Cat(lines[1], <<Run("\n", 1)>>), join(Tail(lines)))

\* s.replace('  ', ' '): one pass, which halves the runs of spaces
CollapseSpacePairs(s) ==
    [i \in 1..Len(s) |->
       IF s[i].c = " " THEN Run(" ", (s[i].n + 1) \div 2) ELSE s[i]]

\* re.sub(r' +', ' ', s)
CollapseSpaces(s) ==
    [i \in 1..Len(s) |-> IF s[i].c = " " THEN Run(" ", 1) ELSE s[i]]

\* whether s holds k consecutive characters c
HasRun(s, c, k) == \E i \in 1..Len(s) : s[i].c = c /\ s[i].n >= k

\* s.endswith(t)
EndsWith(s, t) ==
    StrLen(s) >= StrLen(t) /\ Suffix(s, StrLen(s) - StrLen(t)) = t

(***************************************************************************)
(* clean_email_content: the whitespace pass and the length cap.            *)
(***************************************************************************)
max_length == 50000

\* "\n\n[Content truncated for length...]"
Marker ==
    StrOf(<<"\n", "\n", "[", "C", "o", "n", "t", "e", "n", "t", " ",
            "t", "r", "u", "n", "c", "a", "t", "e", "d", " ",
            "f", "o", "r", " ", "l", "e", "n", "g", "t", "h",
            ".", ".", ".", "]">>)

\* the loop over the lines: each line is stripped, and an empty line is
\* kept only when the line before it was not empty
RECURSIVE CleanLines(_, _, _)
CleanLines(lines, prev_empty, cleaned_lines) ==
    IF lines = <<>> THEN cleaned_lines
    ELSE LET line == strip(Head(lines)) IN
         IF line = <<>>
         THEN IF ~prev_empty
              THEN CleanLines(Tail(lines), TRUE, Append(cleaned_lines, <<>>))
              ELSE CleanLines(Tail(lines), prev_empty, cleaned_lines)
         ELSE CleanLines(Tail(lines), FALSE, Append(cleaned_lines, line))

\* the text after the whitespace pass, before the cap
Normalize(content) ==
    CollapseSpaces(join(CleanLines(split(content), FALSE, <<>>)))

\* the cap that appends the marker and cuts nothing
TruncateNoCut(cleaned) ==
    IF StrLen(cleaned) > max_length THEN Cat(cleaned, Marker) ELSE cleaned

\* the cap: the first max_length characters, then the marker
Truncate(cleaned) ==
    IF StrLen(cleaned) > max_length
    THEN Cat(Prefix(cleaned, max_length), Marker)
    ELSE cleaned

\* the whitespace pass, the cap and the final strip, on the chosen content
CleanContent(content) ==
    IF content = <<>> THEN <<>>
    ELSE strip(Truncate(Normalize(content)))

(***************************************************************************)
(* More of str: lower(), the `in' test and startswith(), for the HTML      *)
(* pipeline.                                                               *)
(***************************************************************************)
UpperCase ==
    <<"A", "B", "C", "D", "E", "F", "G", "H", "I", "J", "K", "L", "M",
      "N", "O", "P", "Q", "R", "S", "T", "U", "V", "W", "X", "Y", "Z">>
LowerCase ==
    <<"a", "b", "c", "d", "e", "f", "g", "h", "i", "j", "k", "l", "m",
      "n", "o", "p", "q", "r", "s", "t", "u", "v", "w", "x", "y", "z">>

LowerChar(c) ==
    IF \E i \in 1..Len(UpperCase) : UpperCase[i] = c
    THEN LowerCase[CHOOSE i \in 1..Len(UpperCase) : UpperCase[i] = c]
    ELSE c

\* s.lower()
RECURSIVE lower(_)
lower(s) ==
    IF s = <<>> THEN <<>>
    ELSE Cat(<<Run(LowerChar(s[1].c), s[1].n)>>, lower(Tail(s)))

\* p in s
Contains(s, p) ==
    IF p = <<>> THEN TRUE
    ELSE IF Len(p) = 1
         THEN \E i \in 1..Len(s) : s[i].c = p[1].c /\ s[i].n >= p[1].n
    ELSE \E i \in 1..(Len(s) - Len(p) + 1) :
            /\ s[i].c = p[1].c /\ s[i].n >= p[1].n
            /\ \A k \in 2..(Len(p) - 1) : s[i + k - 1] = p[k]
            /\ s[i + Len(p) - 1].c = p[Len(p)].c
            /\ s[i + Len(p) - 1].n >= p[Len(p)].n

\* s.startswith(c), c one character
StartsWith(s, c) == s # <<>> /\ s[1].c = c

(***************************************************************************)
(* extract_main_content.                                                   *)
(*                                                                         *)
(* A string that may be read as markup is a value [chars, raises, doc]:    *)
(* its characters, whether BeautifulSoup(html, 'html.parser') raises on    *)
(* it, and the tree the parser builds from it.  The tree is kept flat: doc *)
(* is the sequence of its nodes in document order, each naming its parent  *)
(* (0: the soup itself), so that a node keeps its identity while the       *)
(* pipeline removes and replaces nodes around it.                          *)
(***************************************************************************)
TagNode(name, class, id, hasHref, href, parent) ==
    [kind |-> "tag", name |-> name, class |-> class, id |-> id,
     hasHref |-> hasHref, href |-> href, text |-> <<>>, parent |-> parent]

TextNode(text, parent) ==
    [kind |-> "text", name |-> "", class |-> <<>>, id |-> <<>>,
     hasHref |-> FALSE, href |-> <<>>, text |-> text, parent |-> parent]

\* an HTML comment: a string of the tree that get_text() leaves out
CommentNode(text, parent) ==
    [kind |-> "comment", name |-> "", class |-> <<>>, id |-> <<>>,
     hasHref |-> FALSE, href |-> <<>>, text |-> text, parent |-> parent]

\* the string of characters chars, free of markup: it parses to one string
S(chars) ==
    [chars |-> chars, raises |-> FALSE,
     doc |-> IF chars = <<>> THEN <<>> ELSE <<TextNode(chars, 0)>>]
\* the markup chars, which parses to doc
Markup(chars, doc) == [chars |-> chars, raises |-> FALSE, doc |-> doc]
\* the markup chars, on which the parser raises
BadMarkup(chars) == [chars |-> chars, raises |-> TRUE, doc |-> <<>>]

\* whether node i is node j or one of its ancestors (i = 0: the soup)
RECURSIVE IsAncestorOrSelf(_, _, _)
IsAncestorOrSelf(doc, i, j) ==
    \/ i = j
    \/ j # 0 /\ IsAncestorOrSelf(doc, i, doc[j].parent)

\* node i with all its descendants: what i.decompose() destroys
Subtree(doc, i) == {j \in 1..Len(doc) : IsAncestorOrSelf(doc, i, j)}

UnwantedTags == {"script", "style", "head", "footer", "meta", "link", "noscript"}

footer_patterns ==
    << StrOf(<<"f", "o", "o", "t", "e", "r">>),
       StrOf(<<"u", "n", "s", "u", "b", "s", "c", "r", "i", "b", "e">>),
       StrOf(<<"s", "o", "c", "i", "a", "l">>),
       StrOf(<<"s", "h", "a", "r", "e">>),
       StrOf(<<"p", "r", "e", "f", "e", "r", "e", "n", "c", "e">>) >>

unsubscribe_patterns ==
    << StrOf(<<"u", "n", "s", "u", "b", "s", "c", "r", "i", "b", "e">>),
       StrOf(<<"m", "a", "n", "a", "g", "e", " ", "p", "r", "e", "f", "e",
               "r", "e", "n", "c", "e", "s">>),
       StrOf(<<"u", "p", "d", "a", "t", "e", " ", "y", "o", "u", "r", " ",
               "p", "r", "e", "f", "e", "r", "e", "n", "c", "e", "s">>),
       StrOf(<<"w", "h", "y", " ", "d", "i", "d", " ", "I", " ", "g", "e",
               "t", " ", "t", "h", "i", "s">>),
       StrOf(<<"s", "e", "n", "t", " ", "t", "o">>),
       StrOf(<<"y", "o", "u", " ", "r", "e", "c", "e", "i", "v", "e", "d",
               " ", "t", "h", "i", "s", " ", "e", "m", "a", "i", "l">>),
       StrOf(<<"n", "o", " ", "l", "o", "n", "g", "e", "r", " ", "w", "a",
               "n", "t", " ", "t", "o", " ", "r", "e", "c", "e", "i", "v",
               "e">>),
       StrOf(<<"e", "m", "a", "i", "l", " ", "s", "e", "t", "t", "i", "n",
               "g", "s">>),
       StrOf(<<"s", "t", "o", "p", " ", "r", "e", "c", "e", "i", "v", "i",
               "n", "g">>) >>

\* soup([...]) with decompose(): the unwanted tags go, with their subtrees
RemoveUnwantedTags(doc) ==
    UNION {Subtree(doc, i) :
             i \in {k \in 1..Len(doc) :
                      doc[k].kind = "tag" /\ doc[k].name \in UnwantedTags}}

\* re.compile(pattern, re.I) finds pattern in the class or in the id
MatchesFooterPattern(node) ==
    \E p \in 1..Len(footer_patterns) :
        \/ Contains(lower(node.class), footer_patterns[p])
        \/ Contains(lower(node.id), footer_patterns[p])

\* with the loop over the classes only
RemoveFooterClassesOnly(doc, gone) ==
    gone \cup UNION {Subtree(doc, i) :
                       i \in {k \in 1..Len(doc) :
                                /\ k \notin gone
                                /\ doc[k].kind = "tag"
                                /\ \E p \in 1..Len(footer_patterns) :
                                     Contains(lower(doc[k].class),
                                              footer_patterns[p])}}

\* the nodes gone after the class and id loops: those of gone, and the
\* subtree of every remaining tag whose class or id matches a pattern
RemoveFooterClasses(doc, gone) ==
    gone \cup UNION {Subtree(doc, i) :
                       i \in {k \in 1..Len(doc) :
                                /\ k \notin gone
                                /\ doc[k].kind = "tag"
                                /\ MatchesFooterPattern(doc[k])}}

\* node.get_text(strip=True) of node i: the stripped, non-empty strings
\* below it, in document order, joined by ''
RECURSIVE LinkText(_, _, _, _)
LinkText(doc, gone, i, j) ==
    IF j > Len(doc) THEN <<>>
    ELSE IF /\ j \notin gone
            /\ doc[j].kind = "text"
            /\ IsAncestorOrSelf(doc, i, j)
         THEN Cat(strip(doc[j].text), LinkText(doc, gone, i, j + 1))
         ELSE LinkText(doc, gone, i, j + 1)

\* "[text](href)"
LinkLiteral(text, href) ==
    Cat(Cat(Cat(StrOf(<<"[">>), text), StrOf(<<"]", "(">>)),
        Cat(href, StrOf(<<")">>)))

\* with the anchors whose href starts with '#' converted as the others
RECURSIVE ConvertLinksAny(_, _, _)
ConvertLinksAny(doc, gone, i) ==
    IF i > Len(doc) THEN [doc |-> doc, gone |-> gone]
    ELSE IF i \in gone \/ doc[i].kind # "tag" \/ doc[i].name # "a"
         THEN ConvertLinksAny(doc, gone, i + 1)
    ELSE LET href == IF doc[i].hasHref THEN doc[i].href ELSE <<>>
             text == LinkText(doc, gone, i, i + 1)
         IN  IF href # <<>> /\ text # <<>>
             THEN ConvertLinksAny(
                    [doc EXCEPT ![i] =
                       TextNode(LinkLiteral(text, href), doc[i].parent)],
                    gone \cup (Subtree(doc, i) \ {i}),
                    i + 1)
             ELSE ConvertLinksAny(doc, gone, i + 1)

\* the loop over soup.find_all('a'), from node i on: an anchor with an
\* href not starting with '#' and with text is replaced by the string
\* "[text](href)", which detaches everything below it.
\* The result is the tree and the set of nodes no longer in it.
RECURSIVE ConvertLinks(_, _, _)
ConvertLinks(doc, gone, i) ==
    IF i > Len(doc) THEN [doc |-> doc, gone |-> gone]
    ELSE IF i \in gone \/ doc[i].kind # "tag" \/ doc[i].name # "a"
         THEN ConvertLinks(doc, gone, i + 1)
    ELSE LET href == IF doc[i].hasHref THEN doc[i].href ELSE <<>>
             text == LinkText(doc, gone, i, i + 1)
         IN  IF href # <<>> /\ text # <<>> /\ ~StartsWith(href, "#")
             THEN ConvertLinks(
                    [doc EXCEPT ![i] =
                       TextNode(Cat(Cat(Cat(StrOf(<<"[">>), text),
                                        StrOf(<<"]", "(">>)),
                                    Cat(href, StrOf(<<")">>))),
                                doc[i].parent)],
                    gone \cup (Subtree(doc, i) \ {i}),
                    i + 1)
             ELSE ConvertLinks(doc, gone, i + 1)

\* any(pattern in text_lower for pattern in unsubscribe_patterns)
MentionsUnsubscribe(text) ==
    \E p \in 1..Len(unsubscribe_patterns) :
        Contains(lower(text), unsubscribe_patterns[p])

\* What reading .parent gives on a string that decompose() has destroyed.
\* BeautifulSoup leaves the behaviour of a decomposed element undefined:
\* the attribute is gone and the read raises AttributeError, or the read
\* gives None.  Which of the two the installed library does is fixed for
\* a run and is not known to the program.
VARIABLE destroyed_parent

DestroyedParent == {"AttributeError", "None"}

\* the loop over soup.find_all(string=True), from node i on, over the
\* strings that were in the tree when the loop began (live): the parent
\* of a short string that mentions a pattern is decomposed.  For a string
\* destroyed by an earlier decompose() of this loop the read of its
\* parent raises, or gives None and the string is passed over.
\* The result is the set of nodes gone, and whether the loop raised.
RECURSIVE RemoveUnsubscribeText(_, _, _, _)
RemoveUnsubscribeText(doc, live, gone, i) ==
    IF i > Len(doc) THEN [gone |-> gone, raised |-> FALSE]
    ELSE IF \/ i \notin live
            \/ doc[i].kind \notin {"text", "comment"}
            \/ ~MentionsUnsubscribe(doc[i].text)
         THEN RemoveUnsubscribeText(doc, live, gone, i + 1)
    ELSE IF i \in gone
         THEN IF destroyed_parent = "AttributeError"
              THEN [gone |-> gone, raised |-> TRUE]
              ELSE RemoveUnsubscribeText(doc, live, gone, i + 1)
    ELSE IF StrLen(doc[i].text) < 100
         THEN RemoveUnsubscribeText(
                doc, live, gone \cup Subtree(doc, doc[i].parent), i + 1)
         ELSE RemoveUnsubscribeText(doc, live, gone, i + 1)

\* soup.get_text(separator='\n', strip=True), from node i on: the
\* stripped, non-empty strings left in the tree, joined by '\n'
RECURSIVE GetText(_, _, _)
GetText(doc, gone, i) ==
    IF i > Len(doc) THEN <<>>
    ELSE IF i \in gone \/ doc[i].kind # "text" \/ strip(doc[i].text) = <<>>
         THEN GetText(doc, gone, i + 1)
    ELSE LET rest == GetText(doc, gone, i + 1) IN
         IF rest = <<>> THEN strip(doc[i].text)
         ELSE Cat(Cat(strip(doc[i].text), <<Run("\n", 1)>>), rest)

\* The strings inserted around the headings ('\n\n' before, '\n' after)
\* are whitespace only: they mention no pattern and get_text(strip=True)
\* drops them, so they are left out of the tree.
extract_main_content(html) ==
    IF html.chars = <<>> THEN <<>>
    ELSE IF html.raises THEN <<>>
    ELSE LET gone1 == RemoveUnwantedTags(html.doc)
             gone2 == RemoveFooterClasses(html.doc, gone1)
             linked == ConvertLinks(html.doc, gone2, 1)
             swept == RemoveUnsubscribeText(
                        linked.doc, (1..Len(linked.doc)) \ linked.gone,
                        linked.gone, 1)
         IN  IF swept.raised THEN <<>>
             ELSE GetText(linked.doc, swept.gone, 1)

\* with the fallback to plain text when the HTML yields nothing
clean_email_content_fallback(html_content, plain_content) ==
    LET extracted == extract_main_content(html_content) IN
    CleanContent(IF html_content.chars # <<>> /\ extracted # <<>>
                 THEN extracted ELSE plain_content.chars)

clean_email_content(html_content, plain_content) ==
    CleanContent(IF html_content.chars # <<>>
                 THEN extract_main_content(html_content)
                 ELSE plain_content.chars)

(***************************************************************************)
(* get_email_body and parse_email_content (gmail_client.py).               *)
(*                                                                         *)
(* A part is [mimeType, data, hasParts, parts]; data is the 'data' of the  *)
(* part's body: absent (missing or ''), malformed base64 (urlsafe_b64decode *)
(* raises), the encoding of a text, or the encoding of a text followed by  *)
(* a byte that is not valid UTF-8.                                         *)
(***************************************************************************)
NoData ==
    [present |-> FALSE, decodes |-> FALSE, invalid |-> FALSE, text |-> S(<<>>)]
BadData ==
    [present |-> TRUE, decodes |-> FALSE, invalid |-> FALSE, text |-> S(<<>>)]
Data(text) ==
    [present |-> TRUE, decodes |-> TRUE, invalid |-> FALSE, text |-> text]
InvalidBytes(text) ==
    [present |-> TRUE, decodes |-> TRUE, invalid |-> TRUE, text |-> text]

\* the character bytes.decode('utf-8', errors='replace') puts in the place
\* of an invalid byte
ReplacementChar == "U+FFFD"

Leaf(mimeType, data) ==
    [mimeType |-> mimeType, data |-> data, hasParts |-> FALSE, parts |-> <<>>]
Container(mimeType, parts) ==
    [mimeType |-> mimeType, data |-> NoData, hasParts |-> TRUE, parts |-> parts]
\* a part that has both a body with data and a 'parts' list
Part(mimeType, data, parts) ==
    [mimeType |-> mimeType, data |-> data, hasParts |-> TRUE, parts |-> parts]

\* what stands for an exception of urlsafe_b64decode that is not caught
DecodeError ==
    [chars |-> <<>>, raises |-> FALSE, doc |-> <<>>, error |-> "binascii.Error"]

\* without the try: the exception of urlsafe_b64decode goes to the caller
decode_base64_data_unguarded(data) ==
    IF ~data.decodes THEN DecodeError
    ELSE IF data.invalid
         THEN S(Cat(data.text.chars, <<Run(ReplacementChar, 1)>>))
         ELSE data.text

\* the decoded text, with every invalid byte replaced; "" when
\* urlsafe_b64decode raises
decode_base64_data(data) ==
    IF ~data.decodes THEN S(<<>>)
    ELSE IF data.invalid
         THEN S(Cat(data.text.chars, <<Run(ReplacementChar, 1)>>))
         ELSE data.text

IsMultipart(mimeType) ==
    mimeType \in {"multipart/alternative", "multipart/mixed", "multipart/related"}

\* extract_parts(part), on the pair [plain_body, html_body] it assigns to
RECURSIVE extract_parts(_, _)
RECURSIVE ExtractEach(_, _)

\* with the parts of every part that is not a text part visited, whatever
\* its mimeType
RECURSIVE extract_parts_any(_, _)
RECURSIVE ExtractEachAny(_, _)
extract_parts_any(part, bodies) ==
    IF part.mimeType = "text/plain"
    THEN IF part.data.present
         THEN [bodies EXCEPT !.plain_body = decode_base64_data(part.data)]
         ELSE bodies
    ELSE IF part.mimeType = "text/html"
    THEN IF part.data.present
         THEN [bodies EXCEPT !.html_body = decode_base64_data(part.data)]
         ELSE bodies
    ELSE ExtractEachAny(part.parts, bodies)
ExtractEachAny(parts, bodies) ==
    IF parts = <<>> THEN bodies
    ELSE ExtractEachAny(Tail(parts), extract_parts_any(Head(parts), bodies))

\* with a body assigned only when the decoded text is not empty
extract_parts_keeping(part, bodies) ==
    IF part.mimeType = "text/plain"
    THEN IF part.data.present /\ decode_base64_data(part.data) # S(<<>>)
         THEN [bodies EXCEPT !.plain_body = decode_base64_data(part.data)]
         ELSE bodies
    ELSE IF part.mimeType = "text/html"
    THEN IF part.data.present /\ decode_base64_data(part.data) # S(<<>>)
         THEN [bodies EXCEPT !.html_body = decode_base64_data(part.data)]
         ELSE bodies
    ELSE IF IsMultipart(part.mimeType)
    THEN ExtractEach(part.parts, bodies)
    ELSE bodies

extract_parts(part, bodies) ==
    IF part.mimeType = "text/plain"
    THEN IF part.data.present
         THEN [bodies EXCEPT !.plain_body = decode_base64_data(part.data)]
         ELSE bodies
    ELSE IF part.mimeType = "text/html"
    THEN IF part.data.present
         THEN [bodies EXCEPT !.html_body = decode_base64_data(part.data)]
         ELSE bodies
    ELSE IF IsMultipart(part.mimeType)
    THEN ExtractEach(part.parts, bodies)
    ELSE bodies

\* for subpart in parts: extract_parts(subpart)
ExtractEach(parts, bodies) ==
    IF parts = <<>> THEN bodies
    ELSE ExtractEach(Tail(parts), extract_parts(Head(parts), bodies))

\* plain_body = "" and html_body = ""
NoBodies == [plain_body |-> S(<<>>), html_body |-> S(<<>>)]

\* s reversed
Reversed(s) == [i \in 1..Len(s) |-> s[Len(s) + 1 - i]]

\* with the parts of the payload visited from the last to the first
get_email_body_reversed(payload) ==
    IF payload.hasParts
    THEN ExtractEach(Reversed(payload.parts), NoBodies)
    ELSE IF payload.data.present
         THEN IF payload.mimeType = "text/html"
              THEN [NoBodies EXCEPT !.html_body = decode_base64_data(payload.data)]
              ELSE [NoBodies EXCEPT !.plain_body = decode_base64_data(payload.data)]
         ELSE NoBodies

\* with a payload without parts handled as any other part
get_email_body_as_part(payload) ==
    IF payload.hasParts
    THEN ExtractEach(payload.parts, NoBodies)
    ELSE extract_parts(payload, NoBodies)

get_email_body(payload) ==
    LET none == NoBodies IN
    IF payload.hasParts
    THEN ExtractEach(payload.parts, none)
    ELSE IF payload.data.present
         THEN IF payload.mimeType = "text/html"
              THEN [none EXCEPT !.html_body = decode_base64_data(payload.data)]
              ELSE [none EXCEPT !.plain_body = decode_base64_data(payload.data)]
         ELSE none

\* with the first header of that name kept
HeaderGetFirst(headers, name, default) ==
    LET at == {i \in 1..Len(headers) : lower(headers[i].name) = name} IN
    IF at = {} THEN default
    ELSE headers[CHOOSE i \in at : \A j \in at : i <= j].value

\* headers.get(name, default) on the dict {h['name'].lower(): h['value']}:
\* the value of the last header of that lowercased name
HeaderGet(headers, name, default) ==
    LET at == {i \in 1..Len(headers) : lower(headers[i].name) = name} IN
    IF at = {} THEN default
    ELSE headers[CHOOSE i \in at : \A j \in at : j <= i].value

K_subject == StrOf(<<"s", "u", "b", "j", "e", "c", "t">>)
K_date == StrOf(<<"d", "a", "t", "e">>)

\* a message that is not the dict of the API: message.get raises
Malformed(id) ==
    [shape |-> "malformed", id |-> id, headers |-> <<>>, payload |-> Leaf("", NoData)]
Message(id, headers, payload) ==
    [shape |-> "dict", id |-> id, headers |-> headers, payload |-> payload]

\* whether parse_email_content(message) raises
ParseRaises(message) == message.shape # "dict"

\* the fields of parse_email_content(message) that fetch_newsletters reads
parse_email_content(message) ==
    LET body == get_email_body(message.payload) IN
    [id |-> message.id,
     subject |-> HeaderGet(message.headers, K_subject, "(No Subject)"),
     date |-> HeaderGet(message.headers, K_date, ""),
     plain_body |-> body.plain_body,
     html_body |-> body.html_body]

(***************************************************************************)
(* The inputs of the model: documents, messages, sender lists.             *)
(***************************************************************************)
\* <div class="footer"><a href="http://x">Unsubscribe</a></div><p>Real content</p>
D_footer ==
    Markup(
      StrOf(<<"<", "d", "i", "v", " ", "c", "l", "a", "s", "s", "=", "\"",
              "f", "o", "o", "t", "e", "r", "\"", ">", "<", "a", " ", "h",
              "r", "e", "f", "=", "\"", "h", "t", "t", "p", ":", "/", "/",
              "x", "\"", ">", "U", "n", "s", "u", "b", "s", "c", "r", "i",
              "b", "e", "<", "/", "a", ">", "<", "/", "d", "i", "v", ">",
              "<", "p", ">", "R", "e", "a", "l", " ", "c", "o", "n", "t",
              "e", "n", "t", "<", "/", "p", ">">>),
      << TagNode("div", StrOf(<<"f", "o", "o", "t", "e", "r">>), <<>>, FALSE, <<>>, 0),
         TagNode("a", <<>>, <<>>, TRUE, StrOf(<<"h", "t", "t", "p", ":", "/", "/", "x">>), 1),
         TextNode(StrOf(<<"U", "n", "s", "u", "b", "s", "c", "r", "i",
                              "b", "e">>), 2),
         TagNode("p", <<>>, <<>>, FALSE, <<>>, 0),
         TextNode(StrOf(<<"R", "e", "a", "l", " ", "c", "o", "n", "t",
                              "e", "n", "t">>), 4) >>)

\* <a href="http://example.com">Click here</a>
D_link ==
    Markup(
      StrOf(<<"<", "a", " ", "h", "r", "e", "f", "=", "\"", "h", "t", "t",
              "p", ":", "/", "/", "e", "x", "a", "m", "p", "l", "e", ".",
              "c", "o", "m", "\"", ">", "C", "l", "i", "c", "k", " ", "h",
              "e", "r", "e", "<", "/", "a", ">">>),
      << TagNode("a", <<>>, <<>>, TRUE, StrOf(<<"h", "t", "t", "p", ":", "/", "/", "e", "x",
                              "a", "m", "p", "l", "e", ".", "c", "o", "m">>), 0),
         TextNode(StrOf(<<"C", "l", "i", "c", "k", " ", "h", "e", "r",
                              "e">>), 1) >>)

\* <script>x = 1</script>: markup with no text to keep
D_script ==
    Markup(
      StrOf(<<"<", "s", "c", "r", "i", "p", "t", ">", "x", " ", "=", " ",
              "1", "<", "/", "s", "c", "r", "i", "p", "t", ">">>),
      << TagNode("script", <<>>, <<>>, FALSE, <<>>, 0),
         TextNode(StrOf(<<"x", " ", "=", " ", "1">>), 1) >>)

\* <p>Unsubscribe</p>: markup that is boilerplate only
D_unsub ==
    Markup(
      StrOf(<<"<", "p", ">", "U", "n", "s", "u", "b", "s", "c", "r", "i",
              "b", "e", "<", "/", "p", ">">>),
      << TagNode("p", <<>>, <<>>, FALSE, <<>>, 0),
         TextNode(StrOf(<<"U", "n", "s", "u", "b", "s", "c", "r", "i",
                              "b", "e">>), 1) >>)

\* <p>Hello  Hello</p><p>  </p>
D_hello ==
    Markup(
      StrOf(<<"<", "p", ">", "H", "e", "l", "l", "o", " ", " ", "H", "e",
              "l", "l", "o", "<", "/", "p", ">", "<", "p", ">", " ", " ",
              "<", "/", "p", ">">>),
      << TagNode("p", <<>>, <<>>, FALSE, <<>>, 0),
         TextNode(StrOf(<<"H", "e", "l", "l", "o", " ", " ", "H", "e",
                              "l", "l", "o">>), 1),
         TagNode("p", <<>>, <<>>, FALSE, <<>>, 0),
         TextNode(StrOf(<<" ", " ">>), 3) >>)

\* <![x]>: a marked section html.parser rejects, so the parser raises
D_bad ==
    BadMarkup(StrOf(<<"<", "!", "[", "x", "]", ">">>))

\* the longest senders list
MaxSenders == 2
\* the most message references one search returns
MaxMsgs == 2

Addresses == {"a@x", "b@x"}
MsgIds == {"m1", "m2", "m3"}

SeqsUpTo(S_, n) == UNION {[1..k -> S_] : k \in 0..n}

\* maxResults=10, the number of references the search asks for
maxResults == 10

\* the ids of a result that is longer than was asked for
ManyIds == <<"n1", "n2", "n3", "n4", "n5", "n6", "n7", "n8", "n9", "n10",
             "n11">>

\* a result of maxResults + 1 references
TooMany == [i \in 1..(maxResults + 1) |-> ManyIds[i]]

\* what a search may return: at most MaxMsgs references, each id once,
\* or one reference more than maxResults (the service is not held to the
\* number it was asked for)
SearchResults ==
    {found \in SeqsUpTo(MsgIds, MaxMsgs) :
       \A i, j \in 1..Len(found) : found[i] = found[j] => i = j}
      \cup {TooMany}

H_Subject == StrOf(<<"S", "u", "b", "j", "e", "c", "t">>)
H_SUBJECT == StrOf(<<"S", "U", "B", "J", "E", "C", "T">>)
H_Date == StrOf(<<"D", "a", "t", "e">>)

\* what messages().get(id=...).execute() returns for each id, when it
\* returns: two well-formed messages and one that is not a dict; the ids
\* of the long result are well-formed messages too
Mailbox(id) ==
    CASE id = "m1" ->
           Message("m1",
                   << [name |-> H_Subject, value |-> "Weekly"],
                      [name |-> H_Date, value |-> "Mon"] >>,
                   Leaf("text/plain",
                        Data(S(StrOf(<<"x", " ", " ", "y">>)))))
      [] id = "m2" ->
           Message("m2",
                   << [name |-> H_Subject, value |-> "Old"],
                      [name |-> H_SUBJECT, value |-> "New"] >>,
                   Container("multipart/alternative",
                             << Leaf("text/plain", Data(S(StrOf(<<"y">>)))),
                                Leaf("text/html", Data(D_footer)) >>))
      [] id \in {ManyIds[i] : i \in 1..Len(ManyIds)} ->
           Message(id,
                   << [name |-> H_Subject, value |-> "Weekly"] >>,
                   Leaf("text/plain", Data(S(StrOf(<<"y">>)))))
      [] OTHER -> Malformed(id)

\* the lengths of the runs of "x" drawn in a plain text: short ones, and
\* those that bring a text to the cap and beyond it
XLens == {1, 49998, 49999, 60000}

RunChoices ==
    {Run("x", n) : n \in XLens} \cup {Run("y", 1)}
      \cup {Run(c, n) : c \in {" ", "\n"}, n \in 1..MaxWs}

\* every text of at most MaxRuns runs
PlainTexts ==
    UNION {{s \in [1..k -> RunChoices] :
              \A i \in 1..(k - 1) : s[i].c # s[i + 1].c} : k \in 0..MaxRuns}

\* the plain bodies that accompany a non-empty HTML body
PlainFew == {<<>>, <<Run("y", 1)>>, <<Run("x", 60000)>>}

HtmlInputs ==
    {D_footer, D_link, D_script, D_unsub, D_hello, D_bad,
     S(<<Run("x", 60000)>>), S(<<Run(" ", 1)>>)}

(***************************************************************************)
(* Documents built from blocks.  A block is a top-level element with what  *)
(* is below it (or a top-level string), as a sequence of nodes whose       *)
(* parents are counted inside the block; a document is a sequence of       *)
(* blocks, and its markup is the rendering of its tree.                    *)
(***************************************************************************)
Tx_real ==
    StrOf(<<"R", "e", "a", "l", " ", "c", "o", "n", "t", "e", "n", "t">>)
Tx_unsub ==
    StrOf(<<"U", "n", "s", "u", "b", "s", "c", "r", "i", "b", "e">>)
Tx_click ==
    StrOf(<<"C", "l", "i", "c", "k", " ", "h", "e", "r", "e">>)
Tx_top ==
    StrOf(<<"B", "a", "c", "k", " ", "t", "o", " ", "t", "o", "p">>)
Tx_follow ==
    StrOf(<<"F", "o", "l", "l", "o", "w", " ", "u", "s">>)
Tx_fine ==
    StrOf(<<"F", "i", "n", "e", " ", "p", "r", "i", "n", "t">>)
Tx_keep ==
    StrOf(<<"K", "e", "e", "p", " ", "m", "e">>)
Tx_note ==
    StrOf(<<"H", "i", "d", "d", "e", "n", " ", "n", "o", "t", "e">>)
Tx_unsub_sp ==
    StrOf(<<"U", "n", "s", "u", "b", "s", "c", "r", "i", "b", "e", " ">>)
Tx_here ==
    StrOf(<<"u", "n", "s", "u", "b", "s", "c", "r", "i", "b", "e", " ",
            "h", "e", "r", "e">>)
Tx_sent ==
    StrOf(<<"s", "e", "n", "t", " ", "t", "o", " ", "y", "o", "u">>)
Tx_js ==
    StrOf(<<"x", " ", "=", " ", "1">>)
Tx_c_unsub ==
    StrOf(<<" ", "u", "n", "s", "u", "b", "s", "c", "r", "i", "b", "e", " ">>)
U_x ==
    StrOf(<<"h", "t", "t", "p", ":", "/", "/", "x">>)
U_example ==
    StrOf(<<"h", "t", "t", "p", ":", "/", "/", "e", "x", "a", "m", "p",
            "l", "e", ".", "c", "o", "m">>)
U_top ==
    StrOf(<<"#", "t", "o", "p">>)
U_z ==
    StrOf(<<"h", "t", "t", "p", ":", "/", "/", "z">>)
U_u ==
    StrOf(<<"h", "t", "t", "p", ":", "/", "/", "x", "/", "u">>)
Cl_footer ==
    StrOf(<<"f", "o", "o", "t", "e", "r">>)
Cl_big ==
    StrOf(<<"B", "i", "g", " ", "F", "O", "O", "T", "E", "R">>)
Id_social ==
    StrOf(<<"S", "o", "c", "i", "a", "l", "-", "L", "i", "n", "k", "s">>)
\* a text of n characters that begins with "unsubscribe"
LongText(n) ==
    Cat(StrOf(<<"u", "n", "s", "u", "b", "s", "c", "r", "i", "b", "e">>),
        <<Run("x", n - 11)>>)

\* <p>text</p>
B_p(text) == << TagNode("p", <<>>, <<>>, FALSE, <<>>, 0), TextNode(text, 1) >>

\* <div class="footer"><a href="http://x">Unsubscribe</a></div>
B_footer ==
    << TagNode("div", Cl_footer, <<>>, FALSE, <<>>, 0),
       TagNode("a", <<>>, <<>>, TRUE, U_x, 1),
       TextNode(Tx_unsub, 2) >>

\* <div id="Social-Links"><p>Follow us</p></div>
B_social ==
    << TagNode("div", <<>>, Id_social, FALSE, <<>>, 0),
       TagNode("p", <<>>, <<>>, FALSE, <<>>, 1),
       TextNode(Tx_follow, 2) >>

\* <p class="Big FOOTER">Fine print</p>
B_fine == << TagNode("p", Cl_big, <<>>, FALSE, <<>>, 0), TextNode(Tx_fine, 1) >>

\* <a href="http://example.com">Click here</a>
B_link == << TagNode("a", <<>>, <<>>, TRUE, U_example, 0), TextNode(Tx_click, 1) >>

\* <p><a href="#top">Back to top</a></p>
B_fragment ==
    << TagNode("p", <<>>, <<>>, FALSE, <<>>, 0),
       TagNode("a", <<>>, <<>>, TRUE, U_top, 1),
       TextNode(Tx_top, 2) >>

\* <p><a>Keep me</a></p>
B_nohref ==
    << TagNode("p", <<>>, <<>>, FALSE, <<>>, 0),
       TagNode("a", <<>>, <<>>, FALSE, <<>>, 1),
       TextNode(Tx_keep, 2) >>

\* <a href="http://z"><b></b></a>: an anchor with no text
B_notext ==
    << TagNode("a", <<>>, <<>>, TRUE, U_z, 0),
       TagNode("b", <<>>, <<>>, FALSE, <<>>, 1) >>

\* <p><a href="http://x/u">Unsubscribe</a></p>
B_unsublink ==
    << TagNode("p", <<>>, <<>>, FALSE, <<>>, 0),
       TagNode("a", <<>>, <<>>, TRUE, U_u, 1),
       TextNode(Tx_unsub, 2) >>

\* <div>unsubscribexxx...<br/>Unsubscribe</div>: a text of 100 characters
\* and a short one below the same element
B_mixed ==
    << TagNode("div", <<>>, <<>>, FALSE, <<>>, 0),
       TextNode(LongText(100), 1),
       TagNode("br", <<>>, <<>>, FALSE, <<>>, 1),
       TextNode(Tx_unsub, 1) >>

\* <p>Unsubscribe <b>unsubscribe here</b></p>: a short text whose parent
\* holds another short text further down
B_nested ==
    << TagNode("p", <<>>, <<>>, FALSE, <<>>, 0),
       TextNode(Tx_unsub_sp, 1),
       TagNode("b", <<>>, <<>>, FALSE, <<>>, 1),
       TextNode(Tx_here, 3) >>

\* sent to you: a string at the top of the document, whose parent is the
\* soup
B_bare == << TextNode(Tx_sent, 0) >>

\* <script>x = 1</script>
B_script == << TagNode("script", <<>>, <<>>, FALSE, <<>>, 0), TextNode(Tx_js, 1) >>

\* <div><!-- unsubscribe -->Hidden note</div>
B_comment ==
    << TagNode("div", <<>>, <<>>, FALSE, <<>>, 0),
       CommentNode(Tx_c_unsub, 1),
       TextNode(Tx_note, 1) >>

\* the blocks: a paragraph of plain content, one for each phrase of
\* unsubscribe_patterns in lower case, one of 99 and one of 100
\* characters that mention a phrase, and the blocks above
Blocks ==
    {B_p(Tx_real), B_p(LongText(99)), B_p(LongText(100))}
      \cup {B_p(lower(unsubscribe_patterns[k])) :
              k \in 1..Len(unsubscribe_patterns)}
      \cup {B_footer, B_social, B_fine, B_link, B_fragment, B_nohref,
            B_notext, B_unsublink, B_mixed, B_nested, B_bare, B_script,
            B_comment}

\* the most blocks in a document
MaxBlocks == 2

\* the nodes of block b, placed after at nodes of a document
Placed(b, at) ==
    [i \in 1..Len(b) |->
       [b[i] EXCEPT !.parent = IF @ = 0 THEN 0 ELSE @ + at]]

\* the tree of a sequence of blocks
RECURSIVE TreeOfBlocks(_, _)
TreeOfBlocks(blocks, doc) ==
    IF blocks = <<>> THEN doc
    ELSE TreeOfBlocks(Tail(blocks), doc \o Placed(Head(blocks), Len(doc)))

\* the characters of a tag name
NameChars(name) ==
    CASE name = "div" -> StrOf(<<"d", "i", "v">>)
      [] name = "p" -> StrOf(<<"p">>)
      [] name = "a" -> StrOf(<<"a">>)
      [] name = "b" -> StrOf(<<"b">>)
      [] name = "br" -> StrOf(<<"b", "r">>)
      [] name = "script" -> StrOf(<<"s", "c", "r", "i", "p", "t">>)

\*  name="value", when the attribute is there
Attr(name, present, value) ==
    IF present
    THEN Cat(Cat(Cat(StrOf(<<" ">>), name), StrOf(<<"=", "\"">>)),
             Cat(value, StrOf(<<"\"">>)))
    ELSE <<>>

\* the markup of node i of doc, and of the children of i from node j on
RECURSIVE RenderNode(_, _)
RECURSIVE RenderChildren(_, _, _)
RenderNode(doc, i) ==
    IF doc[i].kind = "text" THEN doc[i].text
    ELSE IF doc[i].kind = "comment"
    THEN Cat(Cat(StrOf(<<"<", "!", "-", "-">>), doc[i].text),
             StrOf(<<"-", "-", ">">>))
    ELSE LET open ==
               Cat(Cat(Cat(StrOf(<<"<">>), NameChars(doc[i].name)),
                       Attr(StrOf(<<"c", "l", "a", "s", "s">>),
                            doc[i].class # <<>>, doc[i].class)),
                   Cat(Attr(StrOf(<<"i", "d">>), doc[i].id # <<>>, doc[i].id),
                       Attr(StrOf(<<"h", "r", "e", "f">>),
                            doc[i].hasHref, doc[i].href)))
         IN  IF doc[i].name = "br" THEN Cat(open, StrOf(<<"/", ">">>))
             ELSE Cat(Cat(Cat(open, StrOf(<<">">>)),
                          RenderChildren(doc, i, i + 1)),
                      Cat(Cat(StrOf(<<"<", "/">>), NameChars(doc[i].name)),
                          StrOf(<<">">>)))

RenderChildren(doc, i, j) ==
    IF j > Len(doc) THEN <<>>
    ELSE IF doc[j].parent = i
         THEN Cat(RenderNode(doc, j), RenderChildren(doc, i, j + 1))
         ELSE RenderChildren(doc, i, j + 1)

\* the markup that parses to the tree doc
Render(doc) == RenderChildren(doc, 0, 1)

\* the documents: at most MaxBlocks blocks, with no two strings side by
\* side at the top (the parser would read them as one string)
Documents ==
    {Markup(Render(TreeOfBlocks(blocks, <<>>)), TreeOfBlocks(blocks, <<>>)) :
       blocks \in {bs \in SeqsUpTo(Blocks, MaxBlocks) :
                     \A i \in 1..(Len(bs) - 1) :
                        ~(bs[i] = B_bare /\ bs[i + 1] = B_bare)}}


\* the most parts of a payload
MaxParts == 2

T_A == S(StrOf(<<"A">>))
T_B == S(StrOf(<<"B">>))

\* leaves that carry a text
TextLeaves ==
    {Leaf(m, Data(t)) : m \in {"text/plain", "text/html"}, t \in {T_A, T_B}}

\* leaves: text leaves, leaves whose data is malformed, absent or holds an
\* invalid byte, and an attachment
LeafChoices ==
    TextLeaves
      \cup {Leaf(m, BadData) : m \in {"text/plain", "text/html"}}
      \cup {Leaf("text/plain", NoData), Leaf("text/html", NoData),
            Leaf("text/plain", InvalidBytes(T_A)),
            Leaf("application/pdf", Data(T_A))}

\* parts with parts of their own: a multipart of two text leaves, an
\* attached message, which is not a multipart, and text parts that carry
\* parts, with data of their own or without
InnerChoices ==
    {Container("multipart/mixed", <<l1, l2>>) : l1, l2 \in TextLeaves}
      \cup {Container("message/rfc822", <<Leaf("text/plain", Data(T_B))>>),
            Part("text/plain", Data(T_A), <<Leaf("text/plain", Data(T_B))>>),
            Part("text/html", NoData, <<Leaf("text/html", Data(T_B))>>)}

\* the payloads: a single part, at most MaxParts parts, or a payload of
\* another mimeType that has both data and at most one part
Payloads ==
    LeafChoices
      \cup {Container("multipart/alternative", parts) :
              parts \in SeqsUpTo(LeafChoices \cup InnerChoices, MaxParts)}
      \cup {Part(m, Data(T_B), parts) :
              m \in {"text/plain", "text/html"},
              parts \in SeqsUpTo(LeafChoices \cup InnerChoices, 1)}

(***************************************************************************)
(* The state.                                                              *)
(*  fetch_newsletters: its arguments and locals, and where it stands (pc). *)
(*    newsletters_by_sender is the dict, as the sequence of its items      *)
(*    [k, v] in insertion order.                                           *)
(*    ends, last and snap record the run: how each sender's iteration      *)
(*    ended, the details of the last one, and the aggregate as it was when *)
(*    the current iteration began.                                         *)
(*    calls is the log of the calls made to the Gmail service.             *)
(*  clean_email_content: its arguments (html_content, plain_content), its  *)
(*    result (cleaned) and the result of cleaning that again as plain text *)
(*    (recleaned); cpc is where the cleaning stands.                       *)
(*  get_email_body: its argument (payload) and its result (bodies); bpc is *)
(*    where the call stands.                                               *)
(*  extract_main_content: its argument (html) and its result (extracted);  *)
(*    epc is where the call stands.                                        *)
(*  destroyed_parent, declared with extract_main_content, is what the     *)
(*    library does on a destroyed string.                                  *)
(*  parse_email_content: its argument (pmsg) and its result (parsed_email); *)
(*    ppc is where the call stands.                                        *)
(*  create_reply_message: its argument (original), its result (reply) and  *)
(*    the reply to that reply (reply2); rpc is where the calls stand.      *)
(*  GmailClient: self.service, whether an authenticate() has succeeded     *)
(*    (succeeded), the number of calls made (ncalls) and the last call     *)
(*    with its outcome and the requests it issued (lastcall).              *)
(*  get_gmail_credentials: its argument and what it finds (auth_in), its   *)
(*    outcome (auth_out); apc is where the call stands.                    *)
(*  the dates of fetch_newsletters: the clock, hours_back, the dates read  *)
(*    so far (dates); dpc is where the call stands.                        *)
(***************************************************************************)
VARIABLES senders, pc, idx, messages, mi, sender_emails,
          newsletters_by_sender, total_emails, ends, last, snap, calls,
          html_content, plain_content, cpc, cleaned, recleaned,
          payload, bodies, bpc,
          html, extracted, epc,
          pmsg, parsed_email, ppc,
          original, reply, reply2, rpc,
          service, succeeded, ncalls, lastcall,
          auth_in, auth_out, apc,
          clock, hours_back, dates, dpc

fetchVars == <<senders, pc, idx, messages, mi, sender_emails,
               newsletters_by_sender, total_emails, ends, last, snap, calls>>
cleanVars == <<html_content, plain_content, cpc, cleaned, recleaned>>
bodyVars == <<payload, bodies, bpc>>
extractVars == <<html, extracted, epc>>
parseVars == <<pmsg, parsed_email, ppc>>
replyVars == <<original, reply, reply2, rpc>>
clientVars == <<service, succeeded, ncalls, lastcall>>
authVars == <<auth_in, auth_out, apc>>
dateVars == <<clock, hours_back, dates, dpc>>
laterVars == <<parseVars, replyVars, clientVars, authVars, dateVars>>
vars == <<senders, pc, idx, messages, mi, sender_emails,
          newsletters_by_sender, total_emails, ends, last, snap, calls,
          html_content, plain_content, cpc, cleaned, recleaned,
          payload, bodies, bpc,
          html, extracted, epc, destroyed_parent,
          pmsg, parsed_email, ppc,
          original, reply, reply2, rpc,
          service, succeeded, ncalls, lastcall,
          auth_in, auth_out, apc,
          clock, hours_back, dates, dpc>>

\* no call of parse_email_content
IdleParse ==
    /\ pmsg = <<>>
    /\ parsed_email = <<>>
    /\ ppc = "idle"

\* no call of create_reply_message
IdleReply ==
    /\ original = <<>>
    /\ reply = <<>>
    /\ reply2 = <<>>
    /\ rpc = "idle"

\* no GmailClient
IdleClient ==
    /\ service = "None"
    /\ succeeded = FALSE
    /\ ncalls = 0
    /\ lastcall = <<>>

\* no call of get_gmail_credentials
IdleAuth ==
    /\ auth_in = <<>>
    /\ auth_out = <<>>
    /\ apc = "idle"

\* no date computed
IdleDates ==
    /\ clock = 0
    /\ hours_back = 0
    /\ dates = <<>>
    /\ dpc = "idle"

IdleLater == IdleParse /\ IdleReply /\ IdleClient /\ IdleAuth /\ IdleDates

(***************************************************************************)
(* The dict newsletters_by_sender.                                         *)
(***************************************************************************)
Keys(d) == {d[i].k : i \in 1..Len(d)}

DictGet(d, k) == d[CHOOSE i \in 1..Len(d) : d[i].k = k].v

\* d[k] = v: a present key keeps its place
DictSet(d, k, v) ==
    IF k \in Keys(d)
    THEN [i \in 1..Len(d) |-> IF d[i].k = k THEN [k |-> k, v |-> v] ELSE d[i]]
    ELSE Append(d, [k |-> k, v |-> v])

\* the number of records in the dict
RECURSIVE CountRecords(_)
CountRecords(d) ==
    IF d = <<>> THEN 0 ELSE Len(d[1].v) + CountRecords(Tail(d))

(***************************************************************************)
(* fetch_newsletters.                                                      *)
(***************************************************************************)
NoIteration == [idx |-> 0, sender |-> "", how |-> "none", err |-> "", kept |-> <<>>]

InitFetch ==
    /\ senders \in SeqsUpTo(Addresses, MaxSenders)
    /\ pc = "search"
    /\ idx = 1
    /\ messages = <<>>
    /\ mi = 0
    /\ sender_emails = <<>>
    /\ newsletters_by_sender = <<>>
    /\ total_emails = 0
    /\ ends = <<>>
    /\ last = NoIteration
    /\ snap = [nbs |-> <<>>, total |-> 0]
    /\ calls = <<>>

\* the end of one sender's iteration, however it ends: the loop moves to
\* the next sender.  The locals of the iteration are dead from here on
\* (each is assigned again before it is read) and are reset.
NextSender(how, err, kept) ==
    /\ pc' = "search"
    /\ idx' = idx + 1
    /\ messages' = <<>>
    /\ mi' = 0
    /\ sender_emails' = <<>>
    /\ ends' = Append(ends, how)
    /\ last' = [idx |-> idx, sender |-> senders[idx], how |-> how,
                err |-> err, kept |-> kept]

\* the handler that keeps the records built before the exception
ExceptExceptionKeep(how, err, kept) ==
    /\ NextSender(how, err, kept)
    /\ newsletters_by_sender' =
         IF kept # <<>>
         THEN DictSet(newsletters_by_sender, senders[idx], kept)
         ELSE newsletters_by_sender
    /\ UNCHANGED total_emails

\* the handler that lets the exception through
ExceptExceptionReraise(how, err, kept) ==
    /\ pc' = "raised"
    /\ ends' = Append(ends, how)
    /\ last' = [idx |-> idx, sender |-> senders[idx], how |-> how,
                err |-> err, kept |-> kept]
    /\ UNCHANGED <<idx, messages, mi, sender_emails,
                   newsletters_by_sender, total_emails>>

\* except Exception: log the error and continue with the next sender
ExceptException(how, err, kept) ==
    /\ NextSender(how, err, kept)
    /\ UNCHANGED <<newsletters_by_sender, total_emails>>

\* the record appended for one parsed message
EmailRecord(parsed) ==
    [id |-> parsed.id, subject |-> parsed.subject, date |-> parsed.date,
     content |-> clean_email_content(parsed.html_body, parsed.plain_body)]

\* the external calls, as the service sees them
ListCall(sender) == [op |-> "list", arg |-> sender]
GetCall(msg_id) == [op |-> "get", arg |-> msg_id]

\* the record put in front of the others
PrependRecord(emails, record) == <<record>> \o emails

\* sender_emails.append({...})
AppendRecord(emails, record) == Append(emails, record)

\* the search leaves an empty list under the sender that has no messages
AfterEmptySearchStored(nbs, sender) == DictSet(nbs, sender, <<>>)

\* if not messages: continue.  The dict is left as it is
AfterEmptySearch(nbs, sender) == nbs

\* if sender_emails: newsletters_by_sender[sender] = sender_emails
StoreSender(nbs, sender, emails) ==
    IF emails # <<>> THEN DictSet(nbs, sender, emails) ELSE nbs

\* messages().list(...).execute() raises (or its result is not a dict)
SearchRaises ==
    /\ pc = "search" /\ idx <= Len(senders)
    /\ snap' = [nbs |-> newsletters_by_sender, total |-> total_emails]
    /\ calls' = Append(calls, ListCall(senders[idx]))
    /\ ExceptException("search_error", "Network", <<>>)
    /\ UNCHANGED <<senders, cleanVars, bodyVars, extractVars, destroyed_parent, laterVars>>

\* the search returns its message references
SearchReturns ==
    /\ pc = "search" /\ idx <= Len(senders)
    /\ snap' = [nbs |-> newsletters_by_sender, total |-> total_emails]
    /\ calls' = Append(calls, ListCall(senders[idx]))
    /\ \E found \in SearchResults :
         IF found = <<>>
         THEN /\ NextSender("empty", "", <<>>)
              /\ newsletters_by_sender' =
                   AfterEmptySearch(newsletters_by_sender, senders[idx])
              /\ UNCHANGED total_emails
         ELSE /\ pc' = "fetch"
              /\ messages' = found
              /\ mi' = 1
              /\ sender_emails' = <<>>
              /\ UNCHANGED <<idx, newsletters_by_sender, total_emails, ends, last>>
    /\ UNCHANGED <<senders, cleanVars, bodyVars, extractVars, destroyed_parent, laterVars>>

\* messages().get(id=msg_id).execute() raises: the id is not found, or
\* the call fails
GetRaises ==
    /\ pc = "fetch"
    /\ calls' = Append(calls, GetCall(messages[mi]))
    /\ \E err \in {"NotFound", "Network"} :
         ExceptException("get_error", err, sender_emails)
    /\ UNCHANGED <<senders, snap, cleanVars, bodyVars, extractVars, destroyed_parent, laterVars>>

\* the get returns something parse_email_content raises on
GetReturnsMalformed ==
    /\ pc = "fetch"
    /\ calls' = Append(calls, GetCall(messages[mi]))
    /\ ParseRaises(Mailbox(messages[mi]))
    /\ ExceptException("parse_error", "AttributeError", sender_emails)
    /\ UNCHANGED <<senders, snap, cleanVars, bodyVars, extractVars, destroyed_parent, laterVars>>

\* the get returns a message: it is parsed and cleaned, its record is
\* appended and counted; after the last message the records are stored
GetReturnsMessage ==
    /\ pc = "fetch"
    /\ ~ParseRaises(Mailbox(messages[mi]))
    /\ calls' = Append(calls, GetCall(messages[mi]))
    /\ LET emails ==
             AppendRecord(sender_emails,
                          EmailRecord(parse_email_content(Mailbox(messages[mi]))))
       IN  /\ total_emails' = total_emails + 1
           /\ IF mi < Len(messages)
              THEN /\ mi' = mi + 1
                   /\ sender_emails' = emails
                   /\ UNCHANGED <<pc, idx, messages, newsletters_by_sender,
                                  ends, last>>
              ELSE /\ newsletters_by_sender' =
                        StoreSender(newsletters_by_sender, senders[idx], emails)
                   /\ NextSender("stored", "", emails)
    /\ UNCHANGED <<senders, snap, cleanVars, bodyVars, extractVars, destroyed_parent, laterVars>>

\* return {..., 'total_emails': ..., 'newsletters_by_sender': ...}
Return ==
    /\ pc = "search" /\ idx > Len(senders)
    /\ pc' = "done"
    /\ UNCHANGED <<senders, idx, messages, mi, sender_emails,
                   newsletters_by_sender, total_emails, ends, last, snap,
                   calls, cleanVars, bodyVars, extractVars, destroyed_parent, laterVars>>

IdleClean ==
    /\ html_content = S(<<>>)
    /\ plain_content = S(<<>>)
    /\ cpc = "idle"
    /\ cleaned = <<>>
    /\ recleaned = <<>>

IdleBody ==
    /\ payload = Leaf("", NoData)
    /\ bodies = NoBodies
    /\ bpc = "idle"

IdleExtract ==
    /\ html = S(<<>>)
    /\ extracted = <<>>
    /\ epc = "idle"

Init ==
    /\ InitFetch /\ IdleClean /\ IdleBody /\ IdleExtract
    /\ destroyed_parent \in DestroyedParent
    /\ IdleLater

Next ==
    \/ SearchRaises
    \/ SearchReturns
    \/ GetRaises
    \/ GetReturnsMalformed
    \/ GetReturnsMessage
    \/ Return

Spec == Init /\ [][Next]_vars

(***************************************************************************)
(* clean_email_content, applied to drawn inputs, and applied again to its  *)
(* own result as plain text.                                               *)
(***************************************************************************)
IdleFetch ==
    /\ senders = <<>>
    /\ pc = "idle"
    /\ idx = 0
    /\ messages = <<>>
    /\ mi = 0
    /\ sender_emails = <<>>
    /\ newsletters_by_sender = <<>>
    /\ total_emails = 0
    /\ ends = <<>>
    /\ last = NoIteration
    /\ snap = [nbs |-> <<>>, total |-> 0]
    /\ calls = <<>>

InitClean ==
    /\ IdleFetch /\ IdleBody /\ IdleExtract
    /\ destroyed_parent \in DestroyedParent
    /\ IdleLater
    /\ cpc = "input"
    /\ cleaned = <<>>
    /\ recleaned = <<>>
    /\ \/ /\ html_content = S(<<>>)
          /\ plain_content \in {S(t) : t \in PlainTexts}
       \/ /\ html_content \in HtmlInputs
          /\ plain_content \in {S(t) : t \in PlainFew}

Clean ==
    /\ cpc = "input"
    /\ cleaned' = clean_email_content(html_content, plain_content)
    /\ cpc' = "cleaned"
    /\ UNCHANGED <<html_content, plain_content, recleaned, fetchVars, bodyVars,
                   extractVars, destroyed_parent, laterVars>>

Reclean ==
    /\ cpc = "cleaned"
    /\ recleaned' = clean_email_content(S(<<>>), S(cleaned))
    /\ cpc' = "recleaned"
    /\ UNCHANGED <<html_content, plain_content, cleaned, fetchVars, bodyVars,
                   extractVars, destroyed_parent, laterVars>>

NextClean ==
    \/ Clean
    \/ Reclean

SpecClean == InitClean /\ [][NextClean]_vars

(***************************************************************************)
(* get_email_body, applied to drawn payloads.                              *)
(***************************************************************************)
InitBody ==
    /\ IdleFetch /\ IdleClean /\ IdleExtract
    /\ destroyed_parent \in DestroyedParent
    /\ IdleLater
    /\ payload \in Payloads
    /\ bodies = NoBodies
    /\ bpc = "input"

GetEmailBody ==
    /\ bpc = "input"
    /\ bodies' = get_email_body(payload)
    /\ bpc' = "returned"
    /\ UNCHANGED <<payload, fetchVars, cleanVars, extractVars, destroyed_parent, laterVars>>

NextBody == GetEmailBody

SpecBody == InitBody /\ [][NextBody]_vars

(***************************************************************************)
(* extract_main_content, applied to drawn documents.                       *)
(***************************************************************************)
InitExtract ==
    /\ IdleFetch /\ IdleClean /\ IdleBody
    /\ destroyed_parent \in DestroyedParent
    /\ IdleLater
    /\ html \in Documents \cup HtmlInputs
    /\ extracted = <<>>
    /\ epc = "input"

Extract ==
    /\ epc = "input"
    /\ extracted' = extract_main_content(html)
    /\ epc' = "done"
    /\ UNCHANGED <<html, fetchVars, cleanVars, bodyVars, destroyed_parent, laterVars>>

NextExtract == Extract

SpecExtract == InitExtract /\ [][NextExtract]_vars

(***************************************************************************)
(* The claims about fetch_newsletters, checked under Spec.                 *)
(***************************************************************************)
ErrorEnds == {"search_error", "get_error", "parse_error"}

\* the iteration recorded in last is the one that has just ended
JustEnded == pc \in {"search", "done"} /\ last.how # "none" /\ idx = last.idx + 1

\* every record of kept is among the records stored under sender
KeptAreStored(kept, sender) ==
    /\ sender \in Keys(newsletters_by_sender)
    /\ \A k \in 1..Len(kept) :
         \E r \in 1..Len(DictGet(newsletters_by_sender, sender)) :
            DictGet(newsletters_by_sender, sender)[r] = kept[k]

\* C1: the digest returned has total_emails equal to the number of
\* records stored in newsletters_by_sender, summed over its keys.
C1_TotalIsSumOfRecords ==
    pc = "done" => total_emails = CountRecords(newsletters_by_sender)

\* C2, as claimed: no exception escapes, every sender of the list gets its
\* search and fetch cycle, and in the digest returned a sender whose
\* iteration failed is not a key of newsletters_by_sender.
C2_FailedSenderAbsent ==
    /\ pc # "raised"
    /\ pc = "done" =>
         /\ Len(ends) = Len(senders)
         /\ \A i \in 1..Len(senders) :
              ends[i] \in ErrorEnds => senders[i] \notin Keys(newsletters_by_sender)

\* C2, amended: no exception escapes, every sender of the list gets its
\* search and fetch cycle, and a failed iteration stores nothing: it
\* leaves newsletters_by_sender as it was when the iteration began, so
\* that in the digest returned a failed sender is a key only if another
\* iteration of the same address stored records.
C2_FailedIterationStoresNothing ==
    /\ pc # "raised"
    /\ (JustEnded /\ last.how \in ErrorEnds) =>
         newsletters_by_sender = snap.nbs
    /\ pc = "done" =>
         /\ Len(ends) = Len(senders)
         /\ \A i \in 1..Len(senders) :
              (ends[i] \in ErrorEnds /\ senders[i] \in Keys(newsletters_by_sender))
                => \E j \in 1..Len(senders) :
                      j # i /\ senders[j] = senders[i] /\ ends[j] = "stored"

\* C2, witness: a run returned in which one sender failed and a later
\* sender was fetched and stored.
C2_Witness ==
    /\ pc = "done"
    /\ \E i, j \in 1..Len(senders) :
         /\ i < j
         /\ ends[i] \in ErrorEnds
         /\ ends[j] = "stored"
         /\ senders[j] # senders[i]
         /\ Keys(newsletters_by_sender) = {senders[j]}

C4_OtherMessagesKept ==
    (JustEnded /\ last.how = "get_error" /\ last.err = "NotFound")
      => (last.kept # <<>> => KeptAreStored(last.kept, last.sender))

\* C4, amended: when the fetch of a message fails with NotFound, the
\* iteration of that sender ends there: the records built in it are
\* dropped (newsletters_by_sender is as it was when the iteration began),
\* no further message of that iteration is fetched, and the loop goes on
\* with the next sender until every sender had its turn.
C4_NotFoundEndsTheSender ==
    /\ (last.how = "get_error" /\ last.err = "NotFound") =>
         /\ idx > last.idx
         /\ JustEnded => newsletters_by_sender = snap.nbs
    /\ pc = "done" => Len(ends) = Len(senders)

\* C4, witness: a NotFound on the second message of a sender, after the
\* first was fetched, followed by a sender that is stored.
C4_Witness ==
    /\ pc = "done"
    /\ \E i \in 1..Len(senders) :
         ends[i] = "get_error" /\ i < Len(senders) /\ ends[i + 1] = "stored"
    /\ total_emails > CountRecords(newsletters_by_sender)

(***************************************************************************)
(* The claims about clean_email_content, checked under SpecClean.          *)
(***************************************************************************)
\* the content clean_email_content chose for its argument
ChosenContent ==
    IF html_content.chars # <<>>
    THEN extract_main_content(html_content)
    ELSE plain_content.chars

\* C5, as claimed: the result has at most max_length characters.
C5_AtMostCap ==
    cpc # "input" => StrLen(cleaned) <= max_length

\* C5, amended: the result has at most max_length characters plus those
\* of the truncation marker, and a result longer than max_length ends
\* with the marker.
C5_AtMostCapPlusMarker ==
    cpc # "input" =>
      /\ StrLen(cleaned) <= max_length + StrLen(Marker)
      /\ StrLen(cleaned) > max_length => EndsWith(cleaned, Marker)

\* C5, witness: a result of max_length characters and the marker.
C5_Witness ==
    cpc = "cleaned" /\ StrLen(cleaned) = max_length + StrLen(Marker)

\* C6: when the normalized text, trimmed, is longer than max_length, the
\* result is the first max_length characters of the trimmed text and
\* then the marker.
C6_TrimBeforeTruncate ==
    (cpc # "input" /\ ChosenContent # <<>>
       /\ StrLen(strip(Normalize(ChosenContent))) > max_length)
      => cleaned = Cat(Prefix(strip(Normalize(ChosenContent)), max_length), Marker)

\* C7: the result never holds three consecutive newlines.
C7_NoThreeNewlines ==
    cpc # "input" => ~HasRun(cleaned, "\n", 3)

\* C8: the result never holds two adjacent spaces.
C8_NoDoubleSpace ==
    cpc # "input" => ~HasRun(cleaned, " ", 2)

\* C8, witness: a text with a run of spaces inside it, cleaned to a text
\* that still holds a space.
C8_Witness ==
    /\ cpc = "cleaned"
    /\ HasRun(ChosenContent, " ", 2)
    /\ HasRun(cleaned, " ", 1)

\* C9: cleaning the result again, as plain text, gives the result back.
C9_Idempotent ==
    (cpc = "recleaned" /\ html_content.chars = <<>>) => recleaned = cleaned

\* C10: with a non-empty html_content the result is the same whatever
\* plain_content is, and is "" when the HTML pipeline yields ""; with
\* html_content empty the result is the cleaning of plain_content.
C10_HtmlDecides ==
    cpc # "input" =>
      /\ html_content.chars # <<>> =>
           /\ \A p \in PlainFew :
                clean_email_content(html_content, S(p)) = cleaned
           /\ extract_main_content(html_content) = <<>> => cleaned = <<>>
      /\ html_content.chars = <<>> => cleaned = CleanContent(plain_content.chars)

\* C10, witness: markup that yields no text, beside a plain body that is
\* not empty, cleaned to "".
C10_Witness ==
    /\ cpc = "cleaned"
    /\ html_content.chars # <<>>
    /\ extract_main_content(html_content) = <<>>
    /\ plain_content.chars # <<>>
    /\ cleaned = <<>>

(***************************************************************************)
(* The claims about get_email_body, checked under SpecBody.                *)
(***************************************************************************)
\* the parts met by a depth-first traversal of parts, in document order,
\* that goes down into the multipart containers only
RECURSIVE PartsMet(_)
PartsMet(parts) ==
    IF parts = <<>> THEN <<>>
    ELSE (IF IsMultipart(Head(parts).mimeType)
          THEN PartsMet(Head(parts).parts)
          ELSE <<Head(parts)>>) \o PartsMet(Tail(parts))

\* the places in met of the parts of that type with data
WithData(met, mimeType) ==
    {i \in 1..Len(met) : met[i].mimeType = mimeType /\ met[i].data.present}

\* the last part of that type with data, when there is one
LastWithData(met, mimeType) ==
    met[CHOOSE i \in WithData(met, mimeType) :
          \A j \in WithData(met, mimeType) : j <= i]

\* the text of the last part of that type with data: what its data
\* decodes to, "" when the decoding fails or when there is no such part
LastText(met, mimeType) ==
    IF WithData(met, mimeType) = {} THEN S(<<>>)
    ELSE decode_base64_data(LastWithData(met, mimeType).data)

\* the part tree of a payload, as the sequence of its top parts: a
\* payload without parts is the only part of its tree
TreeOf(p) == IF p.hasParts THEN p.parts ELSE <<p>>

\* C11, as claimed: for every part tree the plain body is the decoded
\* data of the last text/plain leaf with data met in the traversal, and
\* the HTML body that of the last text/html leaf.
C11_LastLeafWins ==
    bpc = "returned" =>
      /\ bodies.plain_body = LastText(PartsMet(TreeOf(payload)), "text/plain")
      /\ bodies.html_body = LastText(PartsMet(TreeOf(payload)), "text/html")

\* C11, amended: for every payload that has parts the plain body is the
\* decoded data of the last text/plain leaf with data met in a
\* depth-first, document-order traversal that goes down into multipart
\* containers only, and the HTML body that of the last text/html leaf;
\* two text/plain leaves "A" then "B" give the plain body "B".
C11_LastLeafWinsAmongParts ==
    (bpc = "returned" /\ payload.hasParts) =>
      /\ bodies.plain_body = LastText(PartsMet(payload.parts), "text/plain")
      /\ bodies.html_body = LastText(PartsMet(payload.parts), "text/html")
      /\ payload.parts = <<Leaf("text/plain", Data(T_A)),
                           Leaf("text/plain", Data(T_B))>>
           => bodies.plain_body = T_B

\* C11, witness: the two text/plain leaves "A" then "B", and the body "B".
C11_Witness ==
    /\ bpc = "returned"
    /\ payload.hasParts
    /\ payload.parts = <<Leaf("text/plain", Data(T_A)),
                         Leaf("text/plain", Data(T_B))>>
    /\ bodies.plain_body = T_B

\* whether the decoding of data fails, as the claim counts the failures:
\* malformed base64, or bytes that are not valid UTF-8
FailsToDecode(data) == data.present /\ (~data.decodes \/ data.invalid)

\* the body get_email_body returns for that type
BodyOf(b, mimeType) ==
    IF mimeType = "text/html" THEN b.html_body ELSE b.plain_body

\* C12, as claimed: no exception comes out of get_email_body, the parts
\* after a failing part are still read, and a part whose data is
\* malformed base64 or holds invalid bytes gives the empty string.
C12_FailureGivesEmpty ==
    bpc = "returned" =>
      /\ bodies.plain_body # DecodeError /\ bodies.html_body # DecodeError
      /\ \A m \in {"text/plain", "text/html"} :
           LET met == PartsMet(TreeOf(payload)) IN
           (WithData(met, m) # {} /\ FailsToDecode(LastWithData(met, m).data))
             => BodyOf(bodies, m) = S(<<>>)

\* C12, amended: no exception comes out of get_email_body; the parts
\* after a part with malformed base64 are still read (the bodies are
\* those of the last leaves with data, whatever failed before them); a
\* part with malformed base64 gives the empty string, while a part whose
\* bytes are not valid UTF-8 is no failure: it gives its text with the
\* replacement character in the place of the invalid byte.
C12_MalformedBase64GivesEmpty ==
    bpc = "returned" =>
      /\ bodies.plain_body # DecodeError /\ bodies.html_body # DecodeError
      /\ \A m \in {"text/plain", "text/html"} :
           LET met == PartsMet(TreeOf(payload)) IN
           WithData(met, m) # {} =>
             LET data == LastWithData(met, m).data IN
             /\ ~data.decodes => BodyOf(bodies, m) = S(<<>>)
             /\ (data.decodes /\ data.invalid) =>
                  BodyOf(bodies, m) =
                    S(Cat(data.text.chars, <<Run(ReplacementChar, 1)>>))
             /\ (data.decodes /\ ~data.invalid) =>
                  BodyOf(bodies, m) = data.text

\* C12, witness: a text/plain part with malformed base64 and, after it, a
\* text/html part: the plain body is "" and the HTML body was read.
C12_Witness ==
    /\ bpc = "returned"
    /\ payload.hasParts
    /\ payload.parts = <<Leaf("text/plain", BadData),
                         Leaf("text/html", Data(T_A))>>
    /\ bodies = [plain_body |-> S(<<>>), html_body |-> T_A]

\* what the data of a part decodes to, "" when the part has none
Decoded(data) == IF data.present THEN decode_base64_data(data) ELSE S(<<>>)

\* C13: for a payload without parts, the decoded data is the HTML body
\* when the mimeType is text/html and the plain body for every other
\* mimeType, and the other body is empty.
C13_SoleLeaf ==
    (bpc = "returned" /\ ~payload.hasParts) =>
      /\ payload.mimeType = "text/html" =>
           bodies = [plain_body |-> S(<<>>), html_body |-> Decoded(payload.data)]
      /\ payload.mimeType # "text/html" =>
           bodies = [plain_body |-> Decoded(payload.data), html_body |-> S(<<>>)]
      /\ bodies.plain_body = S(<<>>) \/ bodies.html_body = S(<<>>)

\* C13, witness: a payload without parts that is neither text/plain nor
\* text/html, whose data is the plain body.
C13_Witness ==
    /\ bpc = "returned"
    /\ ~payload.hasParts
    /\ payload.mimeType \notin {"text/plain", "text/html"}
    /\ payload.data.present
    /\ bodies.plain_body = T_A

(***************************************************************************)
(* The claims about extract_main_content, checked under SpecExtract.       *)
(***************************************************************************)
\* the nodes gone after the removal of the unwanted tags and of the
\* elements whose class or id matches
AfterRemoval(doc) == RemoveFooterClasses(doc, RemoveUnwantedTags(doc))

\* the tree after the links were converted
Linked(doc) == ConvertLinks(doc, AfterRemoval(doc), 1)

\* the outcome of the sweep over the strings
Swept(doc) ==
    RemoveUnsubscribeText(Linked(doc).doc,
                          (1..Len(doc)) \ Linked(doc).gone,
                          Linked(doc).gone, 1)

\* whether the string of node j of doc is in the text
InOutput(doc, j, text) == Contains(text, strip(doc[j].text))

\* C14: every element whose class or id holds one of the five words, in
\* any case, is removed with all below it before the links are converted:
\* no text below it and no href of a link below it is in the output; and
\* <div class="footer"><a href="http://x">Unsubscribe</a></div>
\* <p>Real content</p> gives a text with "Real content" and without
\* "Unsubscribe".
C14_FooterElementsRemoved ==
    epc = "done" =>
      /\ \A k \in 1..Len(html.doc) :
           (html.doc[k].kind = "tag" /\ MatchesFooterPattern(html.doc[k])) =>
             /\ Subtree(html.doc, k) \subseteq AfterRemoval(html.doc)
             /\ \A j \in Subtree(html.doc, k) :
                  /\ (html.doc[j].kind = "text"
                        /\ strip(html.doc[j].text) # <<>>)
                       => ~InOutput(html.doc, j, extracted)
                  /\ (html.doc[j].kind = "tag" /\ html.doc[j].href # <<>>)
                       => ~Contains(extracted, html.doc[j].href)
      /\ html = D_footer =>
           Contains(extracted, Tx_real) /\ ~Contains(extracted, Tx_unsub)

\* C14, witness: the document of the example, and its text.
C14_Witness ==
    /\ epc = "done"
    /\ html = D_footer
    /\ Contains(extracted, Tx_real)
    /\ ~Contains(extracted, Tx_unsub)

\* the anchors left after the removal of tags, classes and ids
Anchors(doc) ==
    {k \in 1..Len(doc) :
       /\ k \notin AfterRemoval(doc)
       /\ doc[k].kind = "tag" /\ doc[k].name = "a"}

\* the visible text of anchor k
VisibleText(doc, k) == LinkText(doc, AfterRemoval(doc), k, k + 1)

\* whether anchor k has an href that is not empty and does not start with
\* '#', and a visible text that is not empty
Linkable(doc, k) ==
    /\ doc[k].hasHref /\ doc[k].href # <<>>
    /\ ~StartsWith(doc[k].href, "#")
    /\ VisibleText(doc, k) # <<>>

Phrases ==
    [k \in 1..Len(unsubscribe_patterns) |-> lower(unsubscribe_patterns[k])]

\* whether the text, in lower case, holds one of the nine phrases
MentionsPhrase(text) ==
    \E k \in 1..Len(Phrases) : Contains(lower(text), Phrases[k])

\* whether string j of the tree the sweep begins with was removed by it:
\* an exception empties the output; otherwise the string and its parent
\* element are gone, and its text is in the output only as a part of
\* another string that was kept
RemovedBySweep(doc, j, text) ==
    IF Swept(doc).raised
    THEN text = <<>>
    ELSE /\ j \in Swept(doc).gone
         /\ Linked(doc).doc[j].parent # 0 =>
              Linked(doc).doc[j].parent \in Swept(doc).gone
         /\ InOutput(Linked(doc).doc, j, text) =>
              \E i \in (1..Len(doc)) \ Swept(doc).gone :
                /\ Linked(doc).doc[i].kind = "text"
                /\ Contains(Linked(doc).doc[i].text,
                            strip(Linked(doc).doc[j].text))

\* C16: for each of the nine phrases, a string of less than 100 characters
\* that is in the tree when the sweep begins and whose lower case holds
\* the phrase has its parent element removed, and is not in the output.
C16_ShortBoilerplateRemoved ==
    epc = "done" =>
      \A j \in (1..Len(html.doc)) \ Linked(html.doc).gone :
        ( /\ Linked(html.doc).doc[j].kind = "text"
          /\ StrLen(Linked(html.doc).doc[j].text) < 100
          /\ MentionsPhrase(Linked(html.doc).doc[j].text) )
        => RemovedBySweep(html.doc, j, extracted)

\* C17: a string of 100 characters or more that mentions a phrase and is
\* not below an element removed for its tag, class or id is in the
\* output, whatever else the document holds.
C17_LongTextPreserved ==
    epc = "done" =>
      \A j \in (1..Len(html.doc)) \ AfterRemoval(html.doc) :
        ( /\ html.doc[j].kind = "text"
          /\ StrLen(html.doc[j].text) >= 100
          /\ MentionsPhrase(html.doc[j].text) )
        => InOutput(html.doc, j, extracted)
(***************************************************************************)
(* The claims about the calls fetch_newsletters makes, checked under Spec. *)
(***************************************************************************)
\* the searches of a call log, and the arguments of a call log
ListsOf(log) == SelectSeq(log, LAMBDA c : c.op = "list")
Args(log) == [i \in 1..Len(log) |-> log[i].arg]

\* the place of the last search in a call log (0: none)
LastList(log) ==
    IF \E i \in 1..Len(log) : log[i].op = "list"
    THEN CHOOSE i \in 1..Len(log) :
           /\ log[i].op = "list"
           /\ \A j \in (i + 1)..Len(log) : log[j].op = "get"
    ELSE 0

\* the calls made since the last search
GetsOfSender(log) == SubSeq(log, LastList(log) + 1, Len(log))

RecordIds(emails) == [i \in 1..Len(emails) |-> emails[i].id]

KeysInOrder(d) == [i \in 1..Len(d) |-> d[i].k]

\* the senders whose records were stored, in the order of their first
\* stored iteration
RECURSIVE FirstStored(_, _)
FirstStored(i, seen) ==
    IF i > Len(ends) THEN <<>>
    ELSE IF ends[i] = "stored" /\ senders[i] \notin seen
         THEN <<senders[i]>> \o FirstStored(i + 1, seen \cup {senders[i]})
         ELSE FirstStored(i + 1, seen)

\* the searches are for the senders in list order, one for each sender
\* begun; the calls since the last search are the gets of the references
\* it returned, in the returned order, and the records built so far are
\* those of these gets; the keys of the dict are in the order in which
\* the senders were first stored; the records stored last are in the
\* order of their gets
CallsInOrder ==
    /\ Args(ListsOf(calls)) =
         SubSeq(senders, 1, IF pc = "fetch" THEN idx ELSE idx - 1)
    /\ pc = "fetch" =>
         /\ calls[LastList(calls)] = ListCall(senders[idx])
         /\ GetsOfSender(calls) = [i \in 1..(mi - 1) |-> GetCall(messages[i])]
         /\ RecordIds(sender_emails) = SubSeq(messages, 1, mi - 1)
    /\ KeysInOrder(newsletters_by_sender) = FirstStored(1, {})
    /\ (JustEnded /\ last.how = "stored") =>
         RecordIds(DictGet(newsletters_by_sender, last.sender)) =
           Args(GetsOfSender(calls))

\* the step that stores a sender's records stores one record for each
\* reference of the search, in the order of the search
StoredAsReturned ==
    (pc = "fetch" /\ pc' = "search" /\ last'.how = "stored") =>
      /\ RecordIds(DictGet(newsletters_by_sender', senders[idx])) = messages
      /\ Args(GetsOfSender(calls')) = messages

\* C18: the calls are made one after the other in list order (the search
\* for sender i, one get for each reference in the returned order, then
\* the search for sender i+1); each sender's records are in the order the
\* search returned them, and the keys of the mapping are in the order the
\* senders were processed.
C18_CallsAndRecordsInOrder == []CallsInOrder /\ [][StoredAsReturned]_vars

\* C18, witness: two different senders, both stored, the first with the
\* two records of the search <<m2, m1>>.
C18_Witness ==
    /\ pc = "done"
    /\ Len(senders) = 2 /\ senders[1] # senders[2]
    /\ ends = <<"stored", "stored">>
    /\ KeysInOrder(newsletters_by_sender) = senders
    /\ RecordIds(newsletters_by_sender[1].v) = <<"m2", "m1">>
    /\ Args(calls) = <<senders[1], "m2", "m1", senders[2], "m1">>

\* C19, as claimed: every list of records has at most 10 entries, and at
\* most 10 gets are made for one sender, however many references the
\* search returns.
C19_AtMostTenPerSender ==
    /\ \A i \in 1..Len(newsletters_by_sender) :
         Len(newsletters_by_sender[i].v) <= maxResults
    /\ Len(GetsOfSender(calls)) <= maxResults

\* C20, as claimed: when a message that was fetched is malformed, the
\* error leaves fetch_newsletters; no call that met one returns a digest
\* or goes on to the next sender.
C20_MalformedSurfaces ==
    (\E i \in 1..Len(ends) : ends[i] = "parse_error") => pc = "raised"

\* C24, as claimed: an iteration that ends in an error leaves the
\* aggregate as it was when the iteration began: newsletters_by_sender and
\* total_emails are both unchanged, whichever step raised.
C24_FailedIterationLeavesAggregate ==
    (JustEnded /\ last.how \in ErrorEnds) =>
      /\ newsletters_by_sender = snap.nbs
      /\ total_emails = snap.total

(***************************************************************************)
(* parse_email_content, applied to drawn messages.                         *)
(***************************************************************************)
\* every other function idle
IdleEarlier ==
    /\ IdleFetch /\ IdleClean /\ IdleBody /\ IdleExtract
    /\ destroyed_parent \in DestroyedParent

\* the most headers of a drawn message
MaxHeaders == 2

H_DATE == StrOf(<<"D", "A", "T", "E">>)
H_From == StrOf(<<"F", "r", "o", "m">>)

\* the headers drawn: the names in several cases, two values
HeaderChoices ==
    {[name |-> n, value |-> v] :
       n \in {H_Subject, H_SUBJECT, K_subject, H_Date, H_DATE, H_From},
       v \in {"v1", "v2"}}

DrawnMessages ==
    {Message("m1", hs, Leaf("text/plain", Data(T_A))) :
       hs \in SeqsUpTo(HeaderChoices, MaxHeaders)}

InitParse ==
    /\ IdleEarlier
    /\ IdleReply /\ IdleClient /\ IdleAuth /\ IdleDates
    /\ pmsg \in DrawnMessages
    /\ parsed_email = <<>>
    /\ ppc = "input"

ParseMessage ==
    /\ ppc = "input"
    /\ parsed_email' = parse_email_content(pmsg)
    /\ ppc' = "done"
    /\ UNCHANGED <<pmsg, fetchVars, cleanVars, bodyVars, extractVars,
                   destroyed_parent, replyVars, clientVars, authVars,
                   dateVars>>

NextParse == ParseMessage

SpecParse == InitParse /\ [][NextParse]_vars

\* the places of the headers whose name is that name in some case
Named(headers, name) ==
    {i \in 1..Len(headers) : lower(headers[i].name) = name}

\* the value the claim gives: that of the header of that name after which
\* no header of that name comes, the default when there is none
LastNamedOr(headers, name, default, value) ==
    /\ Named(headers, name) = {} => value = default
    /\ \A i \in Named(headers, name) :
         (\A j \in Named(headers, name) : j <= i) => value = headers[i].value

\* C25: the subject of a parsed message, and of its record, is the value
\* of the last header whose name is 'subject' in any case, '(No Subject)'
\* when there is none; its date is the value of the last 'date' header,
\* '' when there is none.
C25_LastHeaderOfNameWins ==
    ppc = "done" =>
      /\ LastNamedOr(pmsg.headers, K_subject, "(No Subject)",
                     parsed_email.subject)
      /\ LastNamedOr(pmsg.headers, K_date, "", parsed_email.date)
      /\ EmailRecord(parsed_email).subject = parsed_email.subject
      /\ EmailRecord(parsed_email).date = parsed_email.date

\* C25, witness: 'Subject: v1' then 'SUBJECT: v2' and no date: the
\* subject is v2 and the date is empty.
C25_Witness ==
    /\ ppc = "done"
    /\ pmsg.headers = << [name |-> H_Subject, value |-> "v1"],
                         [name |-> H_SUBJECT, value |-> "v2"] >>
    /\ parsed_email.subject = "v2"
    /\ parsed_email.date = ""

(***************************************************************************)
(* validate_email and create_reply_message.  An address is the sequence of *)
(* its characters; a subject is a str in the run-length form.              *)
(***************************************************************************)
Letters ==
    {LowerCase[i] : i \in 1..Len(LowerCase)}
      \cup {UpperCase[i] : i \in 1..Len(UpperCase)}
Digits == {"0", "1", "2", "3", "4", "5", "6", "7", "8", "9"}

\* email.strip()
RECURSIVE StripLeft(_)
StripLeft(email) ==
    IF email # <<>> /\ Head(email) \in Whitespace
    THEN StripLeft(Tail(email)) ELSE email
RECURSIVE StripRight(_)
StripRight(email) ==
    IF email # <<>> /\ email[Len(email)] \in Whitespace
    THEN StripRight(SubSeq(email, 1, Len(email) - 1)) ELSE email
StripBoth(email) == StripRight(StripLeft(email))

\* re.match(r'^[a-zA-Z0-9._%+-]+@[a-zA-Z0-9.-]+\.[a-zA-Z]{2,}$', s)
MatchesEmailPattern(s) ==
    \E at \in 2..Len(s) :
      /\ s[at] = "@"
      /\ \A i \in 1..(at - 1) :
           s[i] \in Letters \cup Digits \cup {".", "_", "%", "+", "-"}
      /\ \E dot \in (at + 2)..(Len(s) - 2) :
           /\ s[dot] = "."
           /\ \A i \in (at + 1)..(dot - 1) :
                s[i] \in Letters \cup Digits \cup {".", "-"}
           /\ \A i \in (dot + 1)..Len(s) : s[i] \in Letters

\* whether validate_email(email) returns; it raises ValueError otherwise
validate_email(email) ==
    email # <<>> /\ MatchesEmailPattern(StripBoth(email))

\* re.search(r'<(.+?)>', original_from): the places of the first '<' that
\* has a '>' two or more places after it, and of the first such '>'
AngleOpens(s) ==
    {i \in 1..Len(s) : s[i] = "<" /\ \E j \in (i + 2)..Len(s) : s[j] = ">"}
AngleOpen(s) == CHOOSE i \in AngleOpens(s) : \A k \in AngleOpens(s) : i <= k
AngleClose(s) ==
    CHOOSE j \in (AngleOpen(s) + 2)..Len(s) :
      /\ s[j] = ">"
      /\ \A k \in (AngleOpen(s) + 2)..(j - 1) : s[k] # ">"

\* email_match.group(1) if email_match else original_from
ReplyTo(original_from) ==
    IF AngleOpens(original_from) = {} THEN original_from
    ELSE SubSeq(original_from, AngleOpen(original_from) + 1,
                AngleClose(original_from) - 1)

Re_lower == StrOf(<<"r", "e", ":">>)
Re_prefix == StrOf(<<"R", "e", ":", " ">>)

\* with 'Re: ' put before every subject
ReplySubjectAlways(original_subject) == Cat(Re_prefix, original_subject)

\* reply_subject: 'Re: ' before the subject, unless its lower case starts
\* with 're:'
ReplySubject(original_subject) ==
    IF Prefix(lower(original_subject), 3) = Re_lower
    THEN original_subject
    ELSE Cat(Re_prefix, original_subject)

K_from == StrOf(<<"f", "r", "o", "m">>)
K_message_id == StrOf(<<"m", "e", "s", "s", "a", "g", "e", "-", "i", "d">>)

ReplyRaises(error) ==
    [raises |-> TRUE, error |-> error, to |-> <<>>, subject |-> <<>>,
     in_reply_to |-> <<>>]

\* create_reply_message(original_message, body, is_html): the headers of
\* the message it builds, or the ValueError it raises
create_reply_message(original_message) ==
    LET original_from == HeaderGet(original_message.headers, K_from, <<>>)
        original_subject == HeaderGet(original_message.headers, K_subject, <<>>)
        original_message_id ==
            HeaderGet(original_message.headers, K_message_id, <<>>)
    IN  IF original_from = <<>>
        THEN ReplyRaises("ValueError")
        ELSE IF ~validate_email(ReplyTo(original_from))
        THEN ReplyRaises("ValueError")
        ELSE [raises |-> FALSE, error |-> "",
              to |-> ReplyTo(original_from),
              subject |-> ReplySubject(original_subject),
              in_reply_to |-> original_message_id]

(***************************************************************************)
(* create_reply_message, applied to drawn messages, and to the message     *)
(* that its reply is.                                                      *)
(***************************************************************************)
\* the longest subject drawn
MaxSubject == 3

Subjects ==
    {StrOf(cs) :
       cs \in SeqsUpTo({"R", "r", "E", "e", ":", " ", "x"}, MaxSubject)}

\* a@b.io, 'N <a@b.io>', 'a@b' (no top-level domain), '<>'
A_plain == <<"a", "@", "b", ".", "i", "o">>
A_named == <<"N", " ", "<", "a", "@", "b", ".", "i", "o", ">">>
A_short == <<"a", "@", "b">>
A_angles == <<"<", ">">>
A_padded == <<" ", "a", "@", "b", ".", "i", "o", " ">>

H_Message_ID == StrOf(<<"M", "e", "s", "s", "a", "g", "e", "-", "I", "D">>)

FromHeaders ==
    {<<>>} \cup {<<[name |-> H_From, value |-> a]>> :
                   a \in {A_plain, A_named, A_short, A_angles, A_padded}}

SubjectHeaders ==
    {<<>>} \cup {<<[name |-> H_Subject, value |-> s]>> : s \in Subjects}

Originals ==
    {Message("m1", f \o s, Leaf("text/plain", Data(T_A))) :
       f \in FromHeaders, s \in SubjectHeaders}

\* the reply, as a message of its receiver's mailbox
AsMessage(r) ==
    Message("m2",
            << [name |-> H_From, value |-> A_plain],
               [name |-> H_Subject, value |-> r.subject] >>,
            Leaf("text/plain", Data(T_A)))

InitReply ==
    /\ IdleEarlier
    /\ IdleParse /\ IdleClient /\ IdleAuth /\ IdleDates
    /\ original \in Originals
    /\ reply = <<>>
    /\ reply2 = <<>>
    /\ rpc = "input"

CreateReply ==
    /\ rpc = "input"
    /\ reply' = create_reply_message(original)
    /\ rpc' = "replied"
    /\ UNCHANGED <<original, reply2, fetchVars, cleanVars, bodyVars,
                   extractVars, destroyed_parent, parseVars, clientVars,
                   authVars, dateVars>>

ReplyToReply ==
    /\ rpc = "replied"
    /\ ~reply.raises
    /\ reply2' = create_reply_message(AsMessage(reply))
    /\ rpc' = "replied_again"
    /\ UNCHANGED <<original, reply, fetchVars, cleanVars, bodyVars,
                   extractVars, destroyed_parent, parseVars, clientVars,
                   authVars, dateVars>>

NextReply ==
    \/ CreateReply
    \/ ReplyToReply

SpecReply == InitReply /\ [][NextReply]_vars

\* the characters of a str
RECURSIVE Expand(_)
Expand(s) ==
    IF s = <<>> THEN <<>>
    ELSE [i \in 1..s[1].n |-> s[1].c] \o Expand(Tail(s))

\* whether a str starts with 're:' in any case
StartsWithRe(s) ==
    /\ StrLen(s) >= 3
    /\ Expand(s)[1] \in {"R", "r"}
    /\ Expand(s)[2] \in {"E", "e"}
    /\ Expand(s)[3] = ":"

\* the subject of the message replied to
SubjectOf(m) == HeaderGet(m.headers, K_subject, <<>>)

\* C26: the subject of a reply starts with 're:' in any case; it is the
\* original subject when that starts with 're:' in any case and 'Re: '
\* followed by the original subject otherwise; the reply to a reply has
\* the subject of the reply.
C26_ReplyPrefixOnce ==
    /\ (rpc \in {"replied", "replied_again"} /\ ~reply.raises) =>
         /\ StartsWithRe(reply.subject)
         /\ StartsWithRe(SubjectOf(original)) =>
              reply.subject = SubjectOf(original)
         /\ ~StartsWithRe(SubjectOf(original)) =>
              Expand(reply.subject) =
                <<"R", "e", ":", " ">> \o Expand(SubjectOf(original))
    /\ rpc = "replied_again" =>
         /\ ~reply2.raises
         /\ reply2.subject = reply.subject

\* C26, witness: the subject 'x' gives 'Re: x', and the reply to that
\* reply has the subject 'Re: x' too.
C26_Witness ==
    /\ rpc = "replied_again"
    /\ SubjectOf(original) = StrOf(<<"x">>)
    /\ Expand(reply.subject) = <<"R", "e", ":", " ", "x">>
    /\ reply2.subject = reply.subject

(***************************************************************************)
(* GmailClient.  self.service is "None" or "svc"; a request is one of the  *)
(* Gmail API (getProfile, list, get, send), with whether self.service was  *)
(* unset when it was issued.  A method is an operator from the state of    *)
(* the client and what the API answers to its result and the requests it   *)
(* issued; a result is a value returned or the name of the exception that  *)
(* reaches the caller.                                                     *)
(***************************************************************************)
\* the most calls made on one client
MaxCalls == 3

Req(op, svc) == [op |-> op, unset |-> svc = "None"]

Outcome(result, issued, svc) ==
    [result |-> result, issued |-> issued, service |-> svc]

\* with no check of self.service
NeverUnauthenticated(svc) == FALSE

\* if not self.service
Unauthenticated(svc) == svc = "None"

\* raise RuntimeError("Client not authenticated. Call authenticate() first.")
NotAuthenticated(svc) == Outcome("RuntimeError", <<>>, svc)

\* what build_gmail_service() does: it returns the service after the
\* getProfile request that verifies it; it returns None when there are no
\* credentials or an exception other than FileNotFoundError is raised
\* before the request, or when the request fails; FileNotFoundError (no
\* credentials.json when the browser flow begins) is raised again
BuildOutcomes == {"service", "none", "verification_failed", "FileNotFoundError"}

\* authenticate(): self.service = build_gmail_service(), False when that
\* raises
authenticate(svc, built) ==
    CASE built = "service" ->
           Outcome("True", <<Req("getProfile", svc)>>, "svc")
      [] built = "none" ->
           Outcome("False", <<>>, "None")
      [] built = "verification_failed" ->
           Outcome("False", <<Req("getProfile", svc)>>, "None")
      [] built = "FileNotFoundError" ->
           Outcome("False", <<>>, svc)

\* get_profile(), list_messages(), get_message(): one request, None when
\* it raises
OneRequest(svc, op, answered) ==
    IF Unauthenticated(svc) THEN NotAuthenticated(svc)
    ELSE Outcome(IF answered THEN "value" ELSE "None", <<Req(op, svc)>>, svc)

\* get_email_summaries() and search_emails_from_sender(): the list
\* request, then one get for each reference
get_email_summaries(svc, answered, refs) ==
    IF Unauthenticated(svc) THEN NotAuthenticated(svc)
    ELSE IF ~answered THEN Outcome("[]", <<Req("list", svc)>>, svc)
    ELSE Outcome(IF refs = 0 THEN "[]" ELSE "value",
                 <<Req("list", svc)>> \o [i \in 1..refs |-> Req("get", svc)],
                 svc)

\* send_email(to, ...): create_message validates the recipient; its
\* ValueError is caught by `except Exception' and None is returned
send_email(svc, to, sent) ==
    IF Unauthenticated(svc) THEN NotAuthenticated(svc)
    ELSE IF ~validate_email(to) THEN Outcome("None", <<>>, svc)
    ELSE Outcome(IF sent THEN "value" ELSE "None", <<Req("send", svc)>>, svc)

\* what get_message returns when its request raises
NotFetched ==
    [shape |-> "none", id |-> "", headers |-> <<>>, payload |-> Leaf("", NoData)]

\* with the reply sent whatever was fetched
reply_to_email_unchecked(svc, fetched, sent) ==
    IF Unauthenticated(svc) THEN NotAuthenticated(svc)
    ELSE Outcome(IF sent THEN "value" ELSE "None",
                 <<Req("get", svc), Req("send", svc)>>, svc)

\* reply_to_email(message_id, ...): the original is fetched, the reply is
\* built, then it is sent; ValueError is raised again, any other exception
\* gives None
reply_to_email(svc, fetched, sent) ==
    IF Unauthenticated(svc) THEN NotAuthenticated(svc)
    ELSE IF fetched = NotFetched
    THEN Outcome("ValueError", <<Req("get", svc)>>, svc)
    ELSE IF ParseRaises(fetched)
    THEN Outcome("None", <<Req("get", svc)>>, svc)
    ELSE IF create_reply_message(fetched).raises
    THEN Outcome("ValueError", <<Req("get", svc)>>, svc)
    ELSE Outcome(IF sent THEN "value" ELSE "None",
                 <<Req("get", svc), Req("send", svc)>>, svc)

\* the recipients of the calls of send_email
Recipients == {A_plain, A_short, A_named, <<>>}

\* what the get of reply_to_email may give
Fetched ==
    {NotFetched, Malformed("m3")}
      \cup {Message("m1", f, Leaf("text/plain", Data(T_A))) : f \in FromHeaders}

InitClient ==
    /\ IdleEarlier
    /\ IdleParse /\ IdleReply /\ IdleAuth /\ IdleDates
    /\ service = "None"
    /\ succeeded = FALSE
    /\ ncalls = 0
    /\ lastcall = [method |-> "__init__", arg |-> <<>>, before |-> "None",
                   result |-> "None", issued |-> <<>>]

\* one call of a method: the client and the record of the call
Called(method, arg, out) ==
    /\ ncalls < MaxCalls
    /\ ncalls' = ncalls + 1
    /\ service' = out.service
    /\ succeeded' = (succeeded \/ (method = "authenticate" /\ out.result = "True"))
    /\ lastcall' = [method |-> method, arg |-> arg, before |-> service,
                    result |-> out.result, issued |-> out.issued]
    /\ UNCHANGED <<fetchVars, cleanVars, bodyVars, extractVars,
                   destroyed_parent, parseVars, replyVars, authVars, dateVars>>

Authenticate ==
    \E built \in BuildOutcomes :
      Called("authenticate", <<>>, authenticate(service, built))

GetProfile ==
    \E answered \in BOOLEAN :
      Called("get_profile", <<>>, OneRequest(service, "getProfile", answered))

ListMessages ==
    \E answered \in BOOLEAN :
      Called("list_messages", <<>>, OneRequest(service, "list", answered))

\* get_message(), and get_parsed_email(), which calls it and parses
GetMessage ==
    \E answered \in BOOLEAN, method \in {"get_message", "get_parsed_email"} :
      Called(method, <<>>, OneRequest(service, "get", answered))

\* get_email_summaries(), and search_emails_from_sender(), which calls it
GetEmailSummaries ==
    \E answered \in BOOLEAN, refs \in 0..MaxMsgs,
       method \in {"get_email_summaries", "search_emails_from_sender"} :
      Called(method, <<>>, get_email_summaries(service, answered, refs))

SendEmail ==
    \E to \in Recipients, sent \in BOOLEAN :
      Called("send_email", to, send_email(service, to, sent))

ReplyToEmail ==
    \E fetched \in Fetched, sent \in BOOLEAN :
      Called("reply_to_email", fetched, reply_to_email(service, fetched, sent))

NextClient ==
    \/ Authenticate
    \/ GetProfile
    \/ ListMessages
    \/ GetMessage
    \/ GetEmailSummaries
    \/ SendEmail
    \/ ReplyToEmail

SpecClient == InitClient /\ [][NextClient]_vars

\* C21, as claimed: send_email on an authenticated client with an invalid
\* recipient raises ValueError to its caller and issues no send request.
C21_InvalidRecipientRaises ==
    (lastcall.method = "send_email" /\ lastcall.before = "svc"
       /\ ~validate_email(lastcall.arg)) =>
      /\ lastcall.result = "ValueError"
      /\ \A i \in 1..Len(lastcall.issued) : lastcall.issued[i].op # "send"

\* the methods that use the service
ServiceMethods ==
    {"get_profile", "list_messages", "get_message", "get_email_summaries",
     "get_parsed_email", "search_emails_from_sender", "send_email",
     "reply_to_email"}

\* C22, as claimed: no request is issued while self.service is unset;
\* until an authenticate() has succeeded each of the eight methods raises
\* RuntimeError; and after an authenticate() that failed the client is
\* unauthenticated.
C22_NoRequestWhileUnset ==
    /\ \A i \in 1..Len(lastcall.issued) : ~lastcall.issued[i].unset
    /\ (lastcall.method \in ServiceMethods /\ ~succeeded) =>
         lastcall.result = "RuntimeError"
    /\ (lastcall.method = "authenticate" /\ lastcall.result = "False") =>
         service = "None"

\* C22, amended: a call of one of the eight methods made while
\* self.service is unset raises RuntimeError and issues no request, and
\* self.service is unset until an authenticate() has succeeded; the only
\* request issued while it is unset is the getProfile by which
\* authenticate() verifies the service it builds; an authenticate() that
\* fails on a client that was not authenticated leaves it unauthenticated,
\* and one that fails on an authenticated client either unsets the
\* service or leaves the former service in place.
C22_NoMethodRequestWhileUnset ==
    /\ (lastcall.method \in ServiceMethods /\ lastcall.before = "None") =>
         /\ lastcall.result = "RuntimeError"
         /\ lastcall.issued = <<>>
         /\ service = "None"
    /\ ~succeeded => service = "None"
    /\ \A i \in 1..Len(lastcall.issued) :
         lastcall.issued[i].unset =>
           lastcall.method = "authenticate" /\ lastcall.issued[i].op = "getProfile"
    /\ (lastcall.method = "authenticate" /\ lastcall.result = "False") =>
         service \in {"None", lastcall.before}
    /\ (lastcall.method = "authenticate" /\ lastcall.result = "True") =>
         service = "svc"

\* C22, witness: after an authenticate() that failed, send_email raises
\* RuntimeError and issues nothing.
C22_Witness ==
    /\ ncalls = 2
    /\ ~succeeded
    /\ lastcall.method = "send_email"
    /\ lastcall.arg = A_plain
    /\ lastcall.result = "RuntimeError"
    /\ lastcall.issued = <<>>

\* whether the call sent something
Sends(call) == \E i \in 1..Len(call.issued) : call.issued[i].op = "send"

\* C27: reply_to_email sends only after the get of the original, and only
\* when the original was fetched and a reply could be built from it; when
\* the original is not fetched, or has no From header, or its reply
\* address is invalid, ValueError reaches the caller and nothing is sent.
C27_ReplySendsAfterFetch ==
    (lastcall.method = "reply_to_email" /\ lastcall.before = "svc") =>
      /\ Sends(lastcall) =>
           /\ Len(lastcall.issued) = 2
           /\ lastcall.issued[1].op = "get"
           /\ lastcall.issued[2].op = "send"
           /\ lastcall.arg.shape = "dict"
           /\ Named(lastcall.arg.headers, K_from) # {}
           /\ validate_email(ReplyTo(lastcall.arg.headers[1].value))
      /\ ( \/ lastcall.arg.shape = "none"
           \/ /\ lastcall.arg.shape = "dict"
              /\ \/ Named(lastcall.arg.headers, K_from) = {}
                 \/ ~validate_email(ReplyTo(lastcall.arg.headers[1].value)) ) =>
           /\ lastcall.result = "ValueError"
           /\ ~Sends(lastcall)

\* C27, witness: the original was fetched and has no From header:
\* ValueError, and the get is the only request.
C27_Witness ==
    /\ lastcall.method = "reply_to_email"
    /\ lastcall.before = "svc"
    /\ lastcall.arg.shape = "dict"
    /\ lastcall.arg.headers = <<>>
    /\ lastcall.result = "ValueError"
    /\ lastcall.issued = <<Req("get", "svc")>>

(***************************************************************************)
(* get_gmail_credentials.  What it finds is drawn: the token file (absent, *)
(* unloadable, or loaded with its valid, expired and refresh_token), and   *)
(* whether the refresh, the browser flow and the saving would succeed.     *)
(***************************************************************************)
Token(file, valid, expired, refresh_token) ==
    [file |-> file, valid |-> valid, expired |-> expired,
     refresh_token |-> refresh_token]

\* the token files: credentials are valid only when they have not expired
Tokens ==
    {Token("absent", FALSE, FALSE, FALSE), Token("unloadable", FALSE, FALSE, FALSE)}
      \cup {tk \in {Token("loaded", v, e, r) :
                       v \in BOOLEAN, e \in BOOLEAN, r \in BOOLEAN} :
              ~(tk.valid /\ tk.expired)}

AuthInputs ==
    [interactive : BOOLEAN, token : Tokens, refresh_ok : BOOLEAN,
     flow : {"creds", "FileNotFoundError", "failed"}, save_ok : BOOLEAN]

AuthOutcome(result, refreshed, flow_started, saved) ==
    [result |-> result, refreshed |-> refreshed,
     flow_started |-> flow_started, saved |-> saved]

\* creds = initiate_oauth_flow(); save_token(creds); return creds
OAuthFlow(in, refreshed) ==
    IF in.flow = "creds"
    THEN AuthOutcome("creds", refreshed, TRUE, in.save_ok)
    ELSE AuthOutcome(IF in.flow = "failed" THEN "Exception" ELSE in.flow,
                     refreshed, TRUE, FALSE)

\* with the flow begun whatever `interactive' is
get_gmail_credentials_always(in) ==
    IF in.token.file = "loaded" /\ in.token.valid
    THEN AuthOutcome("creds", FALSE, FALSE, FALSE)
    ELSE IF in.token.file = "loaded" /\ in.token.expired
              /\ in.token.refresh_token /\ in.refresh_ok
    THEN AuthOutcome("creds", TRUE, FALSE, in.save_ok)
    ELSE OAuthFlow(in, FALSE)

\* get_gmail_credentials(interactive): creds is None unless load_token()
\* loaded the file
get_gmail_credentials(in) ==
    IF in.token.file = "loaded" /\ in.token.valid
    THEN AuthOutcome("creds", FALSE, FALSE, FALSE)
    ELSE IF in.token.file = "loaded" /\ in.token.expired
              /\ in.token.refresh_token /\ in.refresh_ok
    THEN AuthOutcome("creds", TRUE, FALSE, in.save_ok)
    ELSE IF ~in.interactive
    THEN AuthOutcome("None", FALSE, FALSE, FALSE)
    ELSE OAuthFlow(in, FALSE)

InitAuth ==
    /\ IdleEarlier
    /\ IdleParse /\ IdleReply /\ IdleClient /\ IdleDates
    /\ auth_in \in AuthInputs
    /\ auth_out = <<>>
    /\ apc = "input"

GetCredentials ==
    /\ apc = "input"
    /\ auth_out' = get_gmail_credentials(auth_in)
    /\ apc' = "done"
    /\ UNCHANGED <<auth_in, fetchVars, cleanVars, bodyVars, extractVars,
                   destroyed_parent, parseVars, replyVars, clientVars,
                   dateVars>>

NextAuth == GetCredentials

SpecAuth == InitAuth /\ [][NextAuth]_vars

\* C23: get_gmail_credentials(interactive=False) never begins the browser
\* flow: with no token, an unloadable token, an expired token without a
\* refresh token or a refresh that fails it returns None, and what it
\* returns otherwise are credentials that were loaded valid or that were
\* refreshed.
C23_NonInteractiveNeverStartsFlow ==
    (apc = "done" /\ ~auth_in.interactive) =>
      /\ ~auth_out.flow_started
      /\ auth_out.result \in {"creds", "None"}
      /\ auth_out.result = "creds" =>
           /\ auth_in.token.file = "loaded"
           /\ \/ auth_in.token.valid /\ ~auth_out.refreshed
              \/ /\ auth_in.token.expired /\ auth_in.token.refresh_token
                 /\ auth_in.refresh_ok /\ auth_out.refreshed
      /\ ( \/ auth_in.token.file # "loaded"
           \/ auth_in.token.expired /\ ~auth_in.token.refresh_token
           \/ auth_in.token.expired /\ ~auth_in.refresh_ok ) =>
           auth_out.result = "None"

\* C23, witness: an expired token whose refresh fails, not interactive:
\* None, and no flow.
C23_Witness ==
    /\ apc = "done"
    /\ ~auth_in.interactive
    /\ auth_in.token = Token("loaded", FALSE, TRUE, TRUE)
    /\ ~auth_in.refresh_ok
    /\ auth_in.flow = "creds"
    /\ auth_out.result = "None"
    /\ ~auth_out.flow_started

(***************************************************************************)
(* The dates of fetch_newsletters.  The clock counts hours; a date is the  *)
(* day of an hour, written in one of the two formats.                      *)
(***************************************************************************)
\* the last hour the clock reaches
MaxHour == 73

\* t.strftime(fmt): the calendar day of the hour t, in that format
DateOf(fmt, t) == [fmt |-> fmt, day |-> t \div 24]

\* calculate_date_filter(hours_back), when datetime.now() is now
calculate_date_filter(hours, now) == DateOf("%Y/%m/%d", now - hours)

NoDate == [fmt |-> "", day |-> 0]

InitDates ==
    /\ IdleEarlier
    /\ IdleParse /\ IdleReply /\ IdleClient /\ IdleAuth
    /\ clock \in 60..71
    /\ hours_back \in {1, 12, 36}
    /\ dates = [date_filter |-> NoDate, target_date |-> NoDate,
                current_date |-> NoDate, read |-> <<>>]
    /\ dpc = "date_filter"

DatesFrame ==
    UNCHANGED <<fetchVars, cleanVars, bodyVars, extractVars, destroyed_parent,
                parseVars, replyVars, clientVars, authVars>>

\* time passes between two statements
ClockAdvances ==
    /\ dpc \in {"date_filter", "target_date", "current_date"}
    /\ clock < MaxHour
    /\ clock' = clock + 1
    /\ UNCHANGED <<hours_back, dates, dpc>>
    /\ DatesFrame

\* date_filter = calculate_date_filter(hours_back)
CalculateDateFilter ==
    /\ dpc = "date_filter"
    /\ dates' = [dates EXCEPT
                   !.date_filter = calculate_date_filter(hours_back, clock),
                   !.read = Append(@, clock)]
    /\ dpc' = "target_date"
    /\ UNCHANGED <<clock, hours_back>>
    /\ DatesFrame

\* target_date = datetime.now() - timedelta(hours=hours_back)
TargetDate ==
    /\ dpc = "target_date"
    /\ dates' = [dates EXCEPT
                   !.target_date = DateOf("%Y-%m-%d", clock - hours_back),
                   !.read = Append(@, clock)]
    /\ dpc' = "current_date"
    /\ UNCHANGED <<clock, hours_back>>
    /\ DatesFrame

\* current_date = datetime.now(), and the label made of the two dates
CurrentDate ==
    /\ dpc = "current_date"
    /\ dates' = [dates EXCEPT
                   !.current_date = DateOf("%Y-%m-%d", clock),
                   !.read = Append(@, clock)]
    /\ dpc' = "done"
    /\ UNCHANGED <<clock, hours_back>>
    /\ DatesFrame

NextDates ==
    \/ ClockAdvances
    \/ CalculateDateFilter
    \/ TargetDate
    \/ CurrentDate

SpecDates == InitDates /\ [][NextDates]_vars

\* C28, as claimed: the date of the 'after:' filter and the start date of
\* the label are the same day, the day of one clock reading less
\* hours_back, and the end date of the label is the day of that reading,
\* also when the clock advances during the call.
C28_OneBoundary ==
    dpc = "done" =>
      LET now == dates.read[1] IN
      /\ dates.date_filter.day = (now - hours_back) \div 24
      /\ dates.target_date.day = dates.date_filter.day
      /\ dates.current_date.day = now \div 24

(***************************************************************************)
(* What get_email_body visits, and what a leaf without data or with data   *)
(* that does not decode does to the bodies; checked under SpecBody.        *)
(***************************************************************************)
\* the parts, with the parts of every part that is not a multipart taken
\* away, at every depth
RECURSIVE PruneEach(_)
PruneEach(parts) ==
    IF parts = <<>> THEN <<>>
    ELSE <<IF IsMultipart(Head(parts).mimeType)
           THEN [Head(parts) EXCEPT !.parts = PruneEach(Head(parts).parts)]
           ELSE [Head(parts) EXCEPT !.parts = <<>>, !.hasParts = FALSE]>>
           \o PruneEach(Tail(parts))

\* the texts carried by the parts and, at every depth, by their parts
RECURSIVE TextsIn(_)
TextsIn(parts) ==
    IF parts = <<>> THEN {}
    ELSE (IF Head(parts).data.present /\ Head(parts).data.decodes
          THEN {Head(parts).data.text} ELSE {})
           \cup TextsIn(Head(parts).parts) \cup TextsIn(Tail(parts))

\* C29: for a payload with a 'parts' field the bodies are those of the
\* same parts under a plain multipart payload without data, once the parts
\* of every nested part that is not a multipart are taken away: the
\* top-level mimeType and data and the children of nested non-multipart
\* parts contribute nothing, so that every body that is not empty is a
\* text of the parts that are left; the leaves of a nested multipart are
\* read, also under a top-level payload that is not a multipart.
C29_DescendsThroughMultipartOnly ==
    (bpc = "returned" /\ payload.hasParts) =>
      /\ bodies = get_email_body(Container("multipart/mixed",
                                           PruneEach(payload.parts)))
      /\ \A m \in {"text/plain", "text/html"} :
           \/ BodyOf(bodies, m) = S(<<>>)
           \/ BodyOf(bodies, m).chars \in
                {t.chars : t \in TextsIn(PruneEach(payload.parts))}
                  \cup {Cat(t.chars, <<Run(ReplacementChar, 1)>>) :
                          t \in TextsIn(PruneEach(payload.parts))}
      /\ (Len(payload.parts) = 1 /\ payload.parts[1].mimeType = "multipart/mixed")
           => LET leaf == payload.parts[1].parts[2] IN
              BodyOf(bodies, leaf.mimeType) = leaf.data.text

\* C29, witness: a text/html payload with data "B" and one part, an
\* attached message that holds a text/plain leaf "B": both bodies are
\* empty.
C29_Witness ==
    /\ bpc = "returned"
    /\ payload = Part("text/html", Data(T_B),
                      <<Container("message/rfc822",
                                  <<Leaf("text/plain", Data(T_B))>>)>>)
    /\ bodies = NoBodies

\* the bodies after the first n of the parts
BodiesAfter(parts, n) == ExtractEach(SubSeq(parts, 1, n), NoBodies)

\* C30: among the parts of a payload met by the traversal, in the order
\* in which they are met, a text leaf without data leaves
\* both bodies as they were before it, and a text leaf whose data is
\* malformed base64 leaves the body of its type empty, whatever was
\* there, and the other body as it was.
C30_EmptyKeepsFailedOverwrites ==
    (bpc = "returned" /\ payload.hasParts) =>
      /\ bodies = BodiesAfter(PartsMet(payload.parts),
                              Len(PartsMet(payload.parts)))
      /\ \A i \in 1..Len(PartsMet(payload.parts)) :
           LET part == PartsMet(payload.parts)[i]
               before == BodiesAfter(PartsMet(payload.parts), i - 1)
               after == BodiesAfter(PartsMet(payload.parts), i)
           IN  \A m \in {"text/plain", "text/html"} :
                 (part.mimeType = m /\ ~part.hasParts) =>
                   /\ ~part.data.present => after = before
                   /\ part.data = BadData =>
                        /\ BodyOf(after, m) = S(<<>>)
                        /\ \A o \in {"text/plain", "text/html"} \ {m} :
                             BodyOf(after, o) = BodyOf(before, o)

\* C30, witness: a text/plain leaf "A" and after it a text/plain leaf
\* with malformed base64: the plain body read from the first is lost.
C30_Witness ==
    /\ bpc = "returned"
    /\ payload.hasParts
    /\ payload.parts = <<Leaf("text/plain", Data(T_A)),
                         Leaf("text/plain", BadData)>>
    /\ BodiesAfter(payload.parts, 1).plain_body = T_A
    /\ bodies.plain_body = S(<<>>)
====
